---- MODULE Spec2Model ----
(***************************************************************************)
(* Capture pipeline of gartic-phone-extended: the Socket.IO protocol       *)
(* parser (createProtocolParser) and the Recorder (createRecorder) that    *)
(* wraps WebSocket.prototype.send.                                         *)
(*                                                                         *)
(* A frame is a sequence of tokens.  Digits and punctuation are single     *)
(* characters; a run of letters that the code never looks inside is one    *)
(* token (a "word").  A JSON string literal is QUOTE, content tokens,      *)
(* QUOTE, and its value is the sequence of its content tokens.             *)
(***************************************************************************)
EXTENDS Integers, Sequences, FiniteSets, TLC

(***************************************************************************)
(* Bounds of the model.                                                    *)
(***************************************************************************)
MaxFields == 2
MaxSent == 3
MaxNow == 1

(***************************************************************************)
(* Characters.                                                             *)
(***************************************************************************)
QUOTE == "\""
DigitChars == {"0", "1", "2", "3", "4", "5", "6", "7", "8", "9"}
DigitVal == [c \in DigitChars |->
               CASE c = "0" -> 0 [] c = "1" -> 1 [] c = "2" -> 2 [] c = "3" -> 3
                 [] c = "4" -> 4 [] c = "5" -> 5 [] c = "6" -> 6 [] c = "7" -> 7
                 [] c = "8" -> 8 [] c = "9" -> 9]
DigitOf == [d \in 0..9 |-> CHOOSE c \in DigitChars : DigitVal[c] = d]

\* F applied to the value of v, v evaluated once ("const x = v; ... x ...").
Let(v, F(_)) == CHOOSE y \in {F(x) : x \in {v}} : TRUE

\* String.prototype.substring(n): the suffix after the first n characters.
Substring(s, n) == SubSeq(s, n + 1, Len(s))

\* The longest prefix of s made of digits (what \d+ matches at position 0).
RECURSIVE DigitRun(_)
DigitRun(s) ==
    IF s # <<>> /\ Head(s) \in DigitChars
    THEN <<Head(s)>> \o DigitRun(Tail(s))
    ELSE <<>>

\* parseInt(digits, 10) on a non-empty run of digits.
RECURSIVE ParseInt(_)
ParseInt(d) ==
    IF d = <<>> THEN 0
    ELSE ParseInt(SubSeq(d, 1, Len(d) - 1)) * 10 + DigitVal[d[Len(d)]]

\* String.prototype.indexOf(c) as a 1-based position, 0 when absent.
IndexOf(s, c) ==
    IF \E i \in 1..Len(s) : s[i] = c
    THEN CHOOSE i \in 1..Len(s) : s[i] = c /\ \A j \in 1..(i - 1) : s[j] # c
    ELSE 0

(***************************************************************************)
(* JavaScript values.  Every value is a record of one shape, so that any   *)
(* two values can be compared; the field k is the type tag.                *)
(***************************************************************************)
JVal(kind, num, str, items, members) ==
    [k |-> kind, n |-> num, s |-> str, xs |-> items, o |-> members]
JUndef == JVal("undefined", 0, <<>>, <<>>, <<>>)
JNull == JVal("null", 0, <<>>, <<>>, <<>>)
JNaN == JVal("nan", 0, <<>>, <<>>, <<>>)
\* Infinity, and HUGE, a number literal too large for a double, which
\* JSON.parse reads as Infinity
JInfinity == JVal("inf", 0, <<>>, <<>>, <<>>)
HUGE == "1e999"
JTrue == JVal("true", 0, <<>>, <<>>, <<>>)
JNum(i) == JVal("num", i, <<>>, <<>>, <<>>)
JStr(toks) == JVal("str", 0, toks, <<>>, <<>>)
JArr(items) == JVal("arr", 0, <<>>, items, <<>>)
JObj(members) == JVal("obj", 0, <<>>, <<>>, members)
Member(key, val) == [key |-> key, val |-> val]
EmptyObj == JObj(<<>>)

\* ToBoolean, as used by || and by if (...).
Truthy(v) ==
    CASE v.k = "undefined" -> FALSE
      [] v.k = "null" -> FALSE
      [] v.k = "nan" -> FALSE
      [] v.k = "num" -> v.n # 0
      [] v.k = "str" -> v.s # <<>>
      [] OTHER -> TRUE

\* a || b
Or(a, b) == IF Truthy(a) THEN a ELSE b

\* obj.key for a value that is neither null nor undefined.  JSON.parse keeps
\* the last of several members with the same key.  Numbers, strings, arrays
\* and booleans have none of the properties the parser reads.
HasKey(v, key) == v.k = "obj" /\ \E i \in 1..Len(v.o) : v.o[i].key = key
Get(v, key) ==
    IF HasKey(v, key)
    THEN LET i == CHOOSE i \in 1..Len(v.o) :
                    /\ v.o[i].key = key
                    /\ \A j \in (i + 1)..Len(v.o) : v.o[j].key # key
         IN v.o[i].val
    ELSE JUndef

Times1(v) == v

\* v * 100 (ToNumber of the operand, then the product).
Times100(v) ==
    CASE v.k = "num" -> JNum(v.n * 100)
      [] v.k = "inf" -> JInfinity
      [] v.k = "null" -> JNum(0)
      [] v.k = "true" -> JNum(100)
      [] v.k = "str" /\ v.s = <<>> -> JNum(0)
      [] v.k = "arr" /\ v.xs = <<>> -> JNum(0)
      [] OTHER -> JNaN

(***************************************************************************)
(* JSON.parse on a token sequence.  A step returns whether it succeeded,   *)
(* the value and the unread rest.                                          *)
(***************************************************************************)
Step(okay, val, rest) == [ok |-> okay, val |-> val, rest |-> rest]
Fail == Step(FALSE, JUndef, <<>>)

\* A string literal at the head of s: QUOTE, content up to the next QUOTE.
ParseString(s) ==
    IF s = <<>> \/ Head(s) # QUOTE THEN Fail
    ELSE LET close == IndexOf(Tail(s), QUOTE)
         IN IF close = 0 THEN Fail
            ELSE Step(TRUE, JStr(SubSeq(Tail(s), 1, close - 1)),
                      Substring(Tail(s), close))

\* A number literal at the head of s, d its digits: no leading zero.
NumberStep(s, d) ==
    IF Len(d) > 1 /\ d[1] = "0" THEN Fail
    ELSE Step(TRUE, JNum(ParseInt(d)), Substring(s, Len(d)))

RECURSIVE ParseValue(_), ParseElements(_, _), ParseMembers(_, _),
          AfterElement(_, _), AfterKey(_, _), AfterMember(_, _, _)
ParseValue(s) ==
    IF s = <<>> THEN Fail
    ELSE CASE Head(s) \in DigitChars -> Let(DigitRun(s), LAMBDA d : NumberStep(s, d))
           [] Head(s) = HUGE -> Step(TRUE, JInfinity, Tail(s))
           [] Head(s) = QUOTE -> ParseString(s)
           [] Head(s) = "null" -> Step(TRUE, JNull, Tail(s))
           [] Head(s) = "true" -> Step(TRUE, JTrue, Tail(s))
           [] Head(s) = "[" ->
                IF Len(s) >= 2 /\ s[2] = "]"
                THEN Step(TRUE, JArr(<<>>), Substring(s, 2))
                ELSE ParseElements(Tail(s), <<>>)
           [] Head(s) = "{" ->
                IF Len(s) >= 2 /\ s[2] = "}"
                THEN Step(TRUE, EmptyObj, Substring(s, 2))
                ELSE ParseMembers(Tail(s), <<>>)
           [] OTHER -> Fail

\* The elements of an array after "[" or ",", acc the elements read so far.
ParseElements(s, acc) == Let(ParseValue(s), LAMBDA r : AfterElement(r, acc))
AfterElement(r, acc) ==
    IF ~r.ok \/ r.rest = <<>> THEN Fail
    ELSE IF Head(r.rest) = "," THEN ParseElements(Tail(r.rest), Append(acc, r.val))
    ELSE IF Head(r.rest) = "]" THEN Step(TRUE, JArr(Append(acc, r.val)), Tail(r.rest))
    ELSE Fail

\* The members of an object after "{" or ",", acc the members read so far.
ParseMembers(s, acc) == Let(ParseString(s), LAMBDA key : AfterKey(key, acc))
AfterKey(key, acc) ==
    IF ~key.ok \/ key.rest = <<>> \/ Head(key.rest) # ":" THEN Fail
    ELSE Let(ParseValue(Tail(key.rest)), LAMBDA r : AfterMember(key, r, acc))
AfterMember(key, r, acc) ==
    IF ~r.ok \/ r.rest = <<>> THEN Fail
    ELSE IF Head(r.rest) = ","
    THEN ParseMembers(Tail(r.rest), Append(acc, Member(key.val.s, r.val)))
    ELSE IF Head(r.rest) = "}"
    THEN Step(TRUE, JObj(Append(acc, Member(key.val.s, r.val))), Tail(r.rest))
    ELSE Fail

\* JSON.parse(text): the parsed value, or a SyntaxError (ok = FALSE).
JSONResult(r) == IF r.ok /\ r.rest = <<>> THEN Step(TRUE, r.val, <<>>) ELSE Fail
JSONParse(s) == Let(ParseValue(s), LAMBDA r : JSONResult(r))

\* JSON.stringify of a value built from numbers, strings, null, arrays and
\* objects; used to write the frames the host application sends.
RECURSIVE IntToDigits(_)
IntToDigits(i) ==
    IF i < 10 THEN <<DigitOf[i]>>
    ELSE IntToDigits(i \div 10) \o <<DigitOf[i % 10]>>

RECURSIVE Stringify(_), StringifyItems(_), StringifyMembers(_)
Stringify(v) ==
    CASE v.k = "num" -> IntToDigits(v.n)
      [] v.k = "str" -> <<QUOTE>> \o v.s \o <<QUOTE>>
      [] v.k = "arr" -> <<"[">> \o StringifyItems(v.xs) \o <<"]">>
      [] v.k = "obj" -> <<"{">> \o StringifyMembers(v.o) \o <<"}">>
      [] v.k = "true" -> <<"true">>
      [] OTHER -> <<"null">>

StringifyItems(xs) ==
    IF xs = <<>> THEN <<>>
    ELSE Stringify(Head(xs)) \o
         (IF Len(xs) > 1 THEN <<",">> \o StringifyItems(Tail(xs)) ELSE <<>>)

StringifyMembers(ms) ==
    IF ms = <<>> THEN <<>>
    ELSE <<QUOTE>> \o Head(ms).key \o <<QUOTE, ":">> \o Stringify(Head(ms).val) \o
         (IF Len(ms) > 1 THEN <<",">> \o StringifyMembers(Tail(ms)) ELSE <<>>)

(***************************************************************************)
(* Protocol parser (createProtocolParser).                                 *)
(***************************************************************************)
PACKET_TYPES_MESSAGE == 4
MESSAGE_TYPES_EVENT == 2
DRAWING_EVENTS == {<<"draw">>, <<"clear">>, <<"undo">>, <<"line">>, <<"stroke">>, <<"path">>}

NoId == -1
Pkt(kind, type, namespace, data, id, log) ==
    [kind |-> kind, type |-> type, namespace |-> namespace, data |-> data,
     id |-> id, log |-> log]
NoPacket(log) == Pkt("null", 0, <<>>, JUndef, NoId, log)
ThrownPacket == Pkt("throw", 0, <<>>, JUndef, NoId, <<>>)

\* The statements inside the try block of _parseSocketPacket, in stages.
\* kind is "packet" for a returned packet, "null" for return null, "throw"
\* when JSON.parse raises in the branch that has no handler of its own.

\* The payload: JSON.parse(packetStr), or packetStr itself when that fails.
DataOf(j, packetStr) == IF j.ok THEN j.val ELSE JStr(packetStr)
ParsePayload(messageType, namespace, id, packetStr) ==
    Let(JSONParse(packetStr),
        LAMBDA j : Pkt("packet", messageType, namespace, DataOf(j, packetStr), id, <<>>))

\* The packet id: packetStr.match(/^(\d+)(?=[,])/), digits the leading digits
\* of packetStr.  The lookahead is not part of the match.
ParseId(messageType, namespace, packetStr, digits) ==
    IF digits # <<>> /\ Len(packetStr) > Len(digits) /\ packetStr[Len(digits) + 1] = ","
    THEN ParsePayload(messageType, namespace, ParseInt(digits),
                      Substring(packetStr, Len(digits)))
    ELSE ParsePayload(messageType, namespace, NoId, packetStr)

\* The namespace: from "/" up to the first comma, when there is one.
ParseNamespace(messageType, packetStr, namespaceEnd) ==
    IF packetStr # <<>> /\ Head(packetStr) = "/" /\ namespaceEnd # 0
    THEN Let(Substring(packetStr, namespaceEnd),
             LAMBDA rest : ParseId(messageType, SubSeq(packetStr, 1, namespaceEnd - 1),
                                   rest, DigitRun(rest)))
    ELSE ParseId(messageType, <<"/">>, packetStr, DigitRun(packetStr))

\* A bare JSON text without message type.
BarePacket(j) ==
    IF j.ok THEN Pkt("packet", MESSAGE_TYPES_EVENT, <<"/">>, j.val, NoId, <<>>)
    ELSE ThrownPacket

\* The message type digit, packetStr the text after the engine digit.
ParseMessageType(packetStr) ==
    IF ~(packetStr # <<>> /\ Head(packetStr) \in DigitChars)
    THEN Let(JSONParse(packetStr), LAMBDA j : BarePacket(j))
    ELSE Let(Substring(packetStr, 1),
             LAMBDA rest : ParseNamespace(DigitVal[Head(packetStr)], rest,
                                          IndexOf(rest, ",")))

ParseSocketPacketBody(rawPacket, debugMode) ==
    IF rawPacket # <<>> /\ Head(rawPacket) \in DigitChars
    THEN IF DigitVal[Head(rawPacket)] # PACKET_TYPES_MESSAGE
         THEN NoPacket(IF debugMode THEN <<"ignoring engine packet">> ELSE <<>>)
         ELSE Let(Substring(rawPacket, 1), LAMBDA rest : ParseMessageType(rest))
    ELSE ParseMessageType(rawPacket)

\* The catch block of _parseSocketPacket: every exception becomes null.
CatchParseError(r, debugMode) ==
    IF r.kind = "throw"
    THEN NoPacket(IF debugMode THEN <<"failed to parse packet">> ELSE <<>>)
    ELSE r

\* _parseSocketPacket(rawPacket)
ParseSocketPacket(rawPacket, debugMode) ==
    Let(ParseSocketPacketBody(rawPacket, debugMode), LAMBDA r : CatchParseError(r, debugMode))

IsDrawingEventOfAnyType(packet) ==
    /\ packet.kind = "packet"
    /\ packet.data.k = "arr"
    /\ Len(packet.data.xs) # 0
    /\ packet.data.xs[1].k = "str"
    /\ packet.data.xs[1].s \in DRAWING_EVENTS

\* _isDrawingEvent(packet) for a packet that is not null.
IsDrawingEvent(packet) ==
    /\ packet.kind = "packet"
    /\ packet.type = MESSAGE_TYPES_EVENT
    /\ packet.data.k = "arr"
    /\ Len(packet.data.xs) # 0
    /\ packet.data.xs[1].k = "str"
    /\ packet.data.xs[1].s \in DRAWING_EVENTS

\* array[i] with JavaScript's zero-based index.
At(arr, i) == IF arr.k = "arr" /\ i + 1 <= Len(arr.xs) THEN arr.xs[i + 1] ELSE JUndef

\* One "if (rawData.key !== undefined) field = rawData.key" line (times 100
\* for the opacity fields), v the value of rawData.key.
Assigned(cur, v, scale) ==
    IF v # JUndef THEN (IF scale THEN Times100(v) ELSE v) ELSE cur

RECURSIVE AssignFirst(_, _, _, _)
AssignFirst(cur, rawData, keys, scale) ==
    IF keys = <<>> THEN cur
    ELSE IF HasKey(rawData, Head(keys))
    THEN Assigned(cur, Get(rawData, Head(keys)), scale)
    ELSE AssignFirst(cur, rawData, Tail(keys), scale)

\* The run of such lines for one field, keys in the order of the code: a
\* later key overwrites.
RECURSIVE AssignEach(_, _, _, _)
AssignEach(cur, rawData, keys, scale) ==
    IF keys = <<>> THEN cur
    ELSE AssignEach(Assigned(cur, Get(rawData, Head(keys)), scale), rawData,
                    Tail(keys), scale)

Normalized(type, x, y, size, color, opacity, prevX, prevY, action) ==
    [type |-> type, x |-> x, y |-> y, size |-> size, color |-> color,
     opacity |-> opacity, prevX |-> prevX, prevY |-> prevY, action |-> action]

DefaultColor == JStr(<<"#000000">>)
DefaultSize == JNum(5)
DefaultOpacity == JNum(100)

\* _normalizeDrawingData(eventType, rawData), rawData neither null nor
\* undefined (reading a property of those raises a TypeError).
NormalizeDrawingData(eventType, rawData) ==
    Normalized(eventType,
        AssignEach(JNum(0), rawData, << <<"x">> >>, FALSE),
        AssignEach(JNum(0), rawData, << <<"y">> >>, FALSE),
        AssignEach(DefaultSize, rawData, << <<"size">>, <<"width">>, <<"thickness">> >>, FALSE),
        AssignEach(DefaultColor, rawData, << <<"color">>, <<"c">> >>, FALSE),
        AssignEach(DefaultOpacity, rawData, << <<"opacity">>, <<"alpha">>, <<"a">> >>, TRUE),
        AssignEach(JNull, rawData, << <<"prevX">>, <<"px">> >>, FALSE),
        AssignEach(JNull, rawData, << <<"prevY">>, <<"py">> >>, FALSE),
        IF eventType.s \in {<<"clear">>, <<"undo">>} THEN eventType ELSE JUndef)

NoData == Normalized(JUndef, JUndef, JUndef, JUndef, JUndef, JUndef, JUndef, JUndef, JUndef)
Event(kind, type, data, timestamp, log) ==
    [kind |-> kind, type |-> type, data |-> data, timestamp |-> timestamp, log |-> log]
NoEvent(log) == Event("null", JUndef, NoData, 0, log)
Thrown(log) == Event("throw", JUndef, NoData, 0, log)

\* packet.data[1] || {}
EventDataWithoutDefault(packet) == At(packet.data, 1)
EventData(packet) == Or(At(packet.data, 1), EmptyObj)

\* _extractDrawingData(packet) at time now.
ExtractFrom(eventName, eventData, now) ==
    IF eventData.k \in {"undefined", "null"} THEN Thrown(<<>>)
    ELSE Event("event", eventName, NormalizeDrawingData(eventName, eventData), now, <<>>)
ExtractDrawingData(packet, now) ==
    IF ~IsDrawingEvent(packet) THEN NoEvent(<<>>)
    ELSE Let(EventData(packet), LAMBDA eventData : ExtractFrom(At(packet.data, 0), eventData, now))

\* parse(rawPacket): kind "event" with the DrawingEvent, "null", or "throw"
\* when an exception leaves parse; log is what debug mode printed.
DebugLog(debugMode, line) == IF debugMode THEN <<line>> ELSE <<>>
WithLog(ev, log) == [ev EXCEPT !.log = log]
ParsePacket(packet, debugMode, now) ==
    IF packet.kind = "null"
    THEN NoEvent(DebugLog(debugMode, "parsing packet") \o packet.log)
    ELSE Let(ExtractDrawingData(packet, now),
             LAMBDA ev : WithLog(ev, DebugLog(debugMode, "parsing packet")
                                     \o DebugLog(debugMode, "packet type")
                                     \o DebugLog(debugMode /\ ev.kind = "event",
                                                 "drawing event captured")))
parse(rawPacket, debugMode, now) ==
    Let(ParseSocketPacket(rawPacket, debugMode),
        LAMBDA packet : ParsePacket(packet, debugMode, now))

\* isMessage(rawPacket)
isMessage(rawPacket) ==
    \/ rawPacket # <<>> /\ Head(rawPacket) = "4"
    \/ /\ rawPacket # <<>> /\ Head(rawPacket) = "2"
       /\ Len(rawPacket) >= 2 /\ rawPacket[2] = "["

\* isPing(rawPacket)
isPing(rawPacket) == rawPacket # <<>> /\ Head(rawPacket) = "2"

(***************************************************************************)
(* Recorder: conversion of a DrawingEvent to a StrokePoint.                *)
(***************************************************************************)
Point(type, x, y, prevX, prevY, size, color, opacity, time, action) ==
    [type |-> type, x |-> x, y |-> y, prevX |-> prevX, prevY |-> prevY,
     size |-> size, color |-> color, opacity |-> opacity, time |-> time,
     action |-> action]
NoPoint == Point(JNull, JNull, JNull, JNull, JNull, JNull, JNull, JNull, 0, JNull)

\* _convertToStrokePoint(drawingEvent) for the events parse returns; the
\* result is NoPoint for return null.  The normalized data has no px / py
\* property, so data.px and data.py read undefined.
ConvertToStrokePoint(drawingEvent) ==
    IF drawingEvent.kind # "event" THEN NoPoint
    ELSE LET data == drawingEvent.data IN
      IF drawingEvent.type.s \in {<<"clear">>, <<"undo">>}
      THEN Point(drawingEvent.type, JNum(0), JNum(0), JUndef, JUndef, JNum(0),
                 DefaultColor, JNum(0), drawingEvent.timestamp, drawingEvent.type)
      ELSE Point(JStr(<<"line">>),
                 Or(data.x, JNum(0)),
                 Or(data.y, JNum(0)),
                 Or(Or(data.prevX, JUndef), JNull),
                 Or(Or(data.prevY, JUndef), JNull),
                 Or(data.size, DefaultSize),
                 Or(data.color, DefaultColor),
                 Or(data.opacity, DefaultOpacity),
                 drawingEvent.timestamp, JUndef)

(***************************************************************************)
(* State.                                                                  *)
(*   wsSend           WebSocket.prototype.send: "native" or "intercepted"  *)
(*   isRecording, currentSession, strokeBuffer, originalSend,              *)
(*   onDataCallback   the variables of createRecorder                      *)
(*   debugMode        the parser's debugMode                               *)
(*   now              Date.now()                                           *)
(*   idSeq            number of session ids generated so far               *)
(*   lastOp           the last call made by the host and what it produced  *)
(*   hostPhase, sent  the host's own record: "started" after it called     *)
(*                    startRecording, "stopped" after the stopRecording    *)
(*                    that followed, "idle" otherwise; and the payloads it *)
(*                    passed to send between the two, kept until the call  *)
(*                    after stopRecording                                  *)
(*   restarted        the host's record that its last startRecording found  *)
(*                    a recording with captured points in progress         *)
(*   arrays           which array objects strokeBuffer, currentSession's    *)
(*                    strokes and the strokes of the session the host      *)
(*                    holds are (0: none); equal numbers are one array     *)
(*   held, returned   the session object the host got from its last        *)
(*                    stopRecording(), as it is now and as it was returned *)
(*   pIn, pOut        input and results of one run of the parser           *)
(* The Player (createPlayer in UI.js) and its drawing surface:             *)
(*   player           the closure variables of the Player                  *)
(*   pending          the animation frames requested and not yet run or    *)
(*                    cancelled                                            *)
(*   surface          what has been drawn on the canvas since it was last  *)
(*                    cleared                                              *)
(*   pLast            the last call into the Player and what it produced   *)
(*   strokesToDraw    the last result of _calculateStrokesPerFrame taken   *)
(*                    on its own, with the speed and deltaTime it had      *)
(* The IO module (createIO):                                               *)
(*   io               a session, the file exportRecording wrote for it and *)
(*                    what importRecording made of that file               *)
(* The userscript (main, the ModulesManager and the modules it registers): *)
(*   app              the manager's modules, the closure variables of the  *)
(*                    Timelapse module, what the manager sees of the       *)
(*                    Painter module, and the document                     *)
(* ReactFiber (findComponent):                                             *)
(*   fib              a fiber tree, a starting node and a predicate, and   *)
(*                    what findComponent made of them                      *)
(* Two Recorders in one page:                                              *)
(*   pair             WebSocket.prototype.send, the originalSend of each   *)
(*                    Recorder, and what the last call did                 *)
(***************************************************************************)
VARIABLES wsSend, isRecording, currentSession, strokeBuffer, originalSend,
          onDataCallback, debugMode, now, idSeq, lastOp, hostPhase, sent,
          restarted, arrays, held, returned, pIn, pOut,
          player, pending, surface, pLast, strokesToDraw, io, app, fib, pair

recVars == <<wsSend, isRecording, currentSession, strokeBuffer, originalSend,
             onDataCallback, debugMode, now, idSeq, lastOp, hostPhase, sent,
             restarted, arrays, held, returned>>
parseVars == <<pIn, pOut>>
playerVars == <<player, pending, surface, pLast, strokesToDraw>>
otherVars == <<io, app, fib, pair>>
vars == <<wsSend, isRecording, currentSession, strokeBuffer, originalSend,
          onDataCallback, debugMode, now, idSeq, lastOp, hostPhase, sent,
          restarted, arrays, held, returned, pIn, pOut, player, pending, surface,
          pLast, strokesToDraw, io, app, fib, pair>>

MaxSessions == 2

Session(id, startTime, endTime, strokes) ==
    [id |-> id, startTime |-> startTime, endTime |-> endTime, strokes |-> strokes]
NullSession == Session(NoId, 0, 0, <<>>)

\* What the host passes to send: a string (its tokens) or a binary object.
Payload(isString, toks) == [isString |-> isString, toks |-> toks]
NoPayload == Payload(FALSE, <<>>)

\* The data callbacks a caller may register: none, one that returns, one
\* that throws.
Callbacks == {"none", "returns", "throws"}
CallbackCall(cb, point, session) ==
    [cb |-> cb, type |-> "stroke", data |-> point, session |-> session]

Op(op, data, forwarded, threw, trace, cbCalls, result) ==
    [op |-> op, data |-> data, forwarded |-> forwarded, threw |-> threw,
     trace |-> trace, cbCalls |-> cbCalls, result |-> result]
PlainOp(op, result) == Op(op, NoPayload, <<>>, FALSE, <<>>, <<>>, result)
\* A call other than send, with the warnings it logged.
Call(op, warned, result) == Op(op, NoPayload, <<>>, FALSE, warned, <<>>, result)

\* isActive(), getStrokeCount(), getCurrentSession()
isActive == isRecording
getStrokeCount == Len(strokeBuffer)
getCurrentSession == currentSession

\* _patchWebSocket() on the pair (originalSend, WebSocket.prototype.send).
PatchWebSocketAgain(orig, ws) ==
    [originalSend |-> ws, wsSend |-> "intercepted", warned |-> <<>>]
PatchWebSocket(orig, ws) ==
    IF orig # "null"
    THEN [originalSend |-> orig, wsSend |-> ws, warned |-> <<"warn:patched">>]
    ELSE [originalSend |-> ws, wsSend |-> "intercepted", warned |-> <<>>]

\* _unpatchWebSocket()
UnpatchWebSocketKeepsSend(orig, ws) ==
    IF orig = "null"
    THEN [originalSend |-> orig, wsSend |-> ws, warned |-> <<"warn:unpatched">>]
    ELSE [originalSend |-> "null", wsSend |-> ws, warned |-> <<>>]
UnpatchWebSocket(orig, ws) ==
    IF orig = "null"
    THEN [originalSend |-> orig, wsSend |-> ws, warned |-> <<"warn:unpatched">>]
    ELSE [originalSend |-> "null", wsSend |-> orig, warned |-> <<>>]

StopRecordingWithoutCopy(rec, cur, buf, t) ==
    IF ~rec \/ cur = NullSession
    THEN [isRecording |-> rec, currentSession |-> cur, strokeBuffer |-> buf,
          result |-> NullSession, warned |-> <<"warn:idle">>]
    ELSE [isRecording |-> FALSE, currentSession |-> NullSession, strokeBuffer |-> <<>>,
          result |-> Session(cur.id, cur.startTime, t, cur.strokes), warned |-> <<>>]

StopRecordingUnguarded(rec, cur, buf, t) ==
    [isRecording |-> FALSE, currentSession |-> NullSession, strokeBuffer |-> <<>>,
     result |-> Session(cur.id, cur.startTime, t, buf), warned |-> <<>>]

\* stopRecording() at time t on (isRecording, currentSession, strokeBuffer):
\* the new values and the value returned.
StopRecordingOn(rec, cur, buf, t) ==
    IF ~rec \/ cur = NullSession
    THEN [isRecording |-> rec, currentSession |-> cur, strokeBuffer |-> buf,
          result |-> NullSession, warned |-> <<"warn:idle">>]
    ELSE [isRecording |-> FALSE, currentSession |-> NullSession, strokeBuffer |-> <<>>,
          result |-> Session(cur.id, cur.startTime, t, buf), warned |-> <<>>]

\* startRecording() at time t, generating the session id id: an active
\* recording is stopped first and its result dropped, the socket is patched,
\* and a new session and a new buffer are created.
StartRecordingKeepsBuffer(rec, cur, buf, orig, ws, id, t) ==
    LET p == PatchWebSocket(orig, ws) IN
    [isRecording |-> TRUE, currentSession |-> Session(id, t, 0, <<>>),
     strokeBuffer |-> buf, originalSend |-> p.originalSend, wsSend |-> p.wsSend,
     dropped |-> IF rec THEN buf ELSE <<>>,
     warned |-> (IF rec THEN <<"warn:recording">> ELSE <<>>) \o p.warned]
StartRecordingOn(rec, cur, buf, orig, ws, id, t) ==
    LET stopped == IF rec THEN StopRecordingOn(rec, cur, buf, t)
                   ELSE [isRecording |-> rec, currentSession |-> cur,
                         strokeBuffer |-> buf, result |-> NullSession, warned |-> <<>>]
        p == PatchWebSocket(orig, ws)
    IN [isRecording |-> TRUE, currentSession |-> Session(id, t, 0, <<>>),
        strokeBuffer |-> <<>>, originalSend |-> p.originalSend, wsSend |-> p.wsSend,
        dropped |-> stopped.result.strokes,
        warned |-> (IF rec THEN <<"warn:recording">> ELSE <<>>)
                   \o stopped.warned \o p.warned]

\* Array objects.  Arrays(buffer, session, held) names the arrays behind
\* strokeBuffer, currentSession.strokes and the held session's strokes.
Arrays(buffer, session, heldStrokes) ==
    [buffer |-> buffer, session |-> session, held |-> heldStrokes]
NoArray == 0
\* A new array object: one that is none of those in use.
Fresh(used) == CHOOSE i \in 1..(Cardinality(used) + 1) : i \notin used
\* The same arrays numbered in the order held, session, buffer.
Canon(ids) ==
    LET h == IF ids.held = NoArray THEN NoArray ELSE 1
        sn == IF ids.session = NoArray THEN NoArray
              ELSE IF ids.session = ids.held THEN h
              ELSE Fresh({h} \ {NoArray})
        b == IF ids.buffer = NoArray THEN NoArray
             ELSE IF ids.buffer = ids.held THEN h
             ELSE IF ids.buffer = ids.session THEN sn
             ELSE Fresh({h, sn} \ {NoArray})
    IN Arrays(b, sn, h)
\* The contents of an array variable after the buffer's array got the
\* contents buf: changed when it is the same array.
Through(ids, holder, old, buf) ==
    IF ids[holder] # NoArray /\ ids[holder] = ids.buffer THEN buf ELSE old

\* stopRecording() on the arrays, for an active recording: [...strokeBuffer]
\* is a new array, assigned to the session's strokes and carried by the
\* returned copy of the session; currentSession = null; strokeBuffer = [].
StopArraysShared(ids) ==
    [buffer |-> ids.buffer, session |-> NoArray, held |-> ids.held, result |-> ids.buffer]
StopArrays(ids) ==
    LET copy == Fresh({ids.buffer, ids.session, ids.held}) IN
    [buffer |-> Fresh({ids.buffer, ids.session, ids.held, copy}), session |-> NoArray,
     held |-> ids.held, result |-> copy]
\* startRecording() on the arrays: strokes: [] and strokeBuffer = [].
StartArrays(ids, rec) ==
    LET stopped == IF rec THEN StopArrays(ids) ELSE ids
        strokes == Fresh({stopped.buffer, stopped.held})
    IN [buffer |-> Fresh({stopped.buffer, stopped.held, strokes}), session |-> strokes,
        held |-> stopped.held]
\* destroy() on the arrays: _clearBuffer() is strokeBuffer = [].
DestroyArrays(ids, rec) ==
    LET stopped == IF rec THEN StopArrays(ids) ELSE ids IN
    [buffer |-> Fresh({stopped.buffer, stopped.session, stopped.held}),
     session |-> stopped.session, held |-> stopped.held]

\* The catch block of _interceptedSend: it logs the error and returns.
RethrowProcessingError(raised) == raised
CatchProcessingError(raised) == FALSE

\* if (!isRecording || !currentSession) return;
ObservesAlways(rec, cur) == TRUE
Observes(rec, cur) == ~(~rec \/ cur = NullSession)

\* The part of _interceptedSend after the forward, for a recording Recorder:
\* the try block.  raised tells whether an exception left the block.
Processed(buf, cbCalls, raised, trace) ==
    [strokeBuffer |-> buf, cbCalls |-> cbCalls, raised |-> raised, trace |-> trace]
ProcessPointNotifiesTwice(strokePoint, buf, cb, session) ==
    IF strokePoint = NoPoint THEN Processed(buf, <<>>, FALSE, <<"parse">>)
    ELSE Processed(Append(buf, strokePoint),
                   IF cb = "none" THEN <<>>
                   ELSE <<CallbackCall(cb, strokePoint, session.id),
                          CallbackCall(cb, strokePoint, session.id)>>,
                   cb = "throws",
                   <<"parse", "push">> \o (IF cb = "none" THEN <<>> ELSE <<"callback">>))
ProcessPoint(strokePoint, buf, cb, session) ==
    IF strokePoint = NoPoint THEN Processed(buf, <<>>, FALSE, <<"parse">>)
    ELSE Processed(Append(buf, strokePoint),
                   IF cb = "none" THEN <<>>
                   ELSE <<CallbackCall(cb, strokePoint, session.id)>>,
                   cb = "throws",
                   <<"parse", "push">> \o (IF cb = "none" THEN <<>> ELSE <<"callback">>))
ProcessEvent(drawingEvent, buf, cb, session) ==
    IF drawingEvent.kind = "throw" THEN Processed(buf, <<>>, TRUE, <<"parse">>)
    ELSE IF drawingEvent.kind = "null" THEN Processed(buf, <<>>, FALSE, <<"parse">>)
    ELSE Let(ConvertToStrokePoint(drawingEvent),
             LAMBDA strokePoint : ProcessPoint(strokePoint, buf, cb, session))
ProcessPacket(data, buf, cb, session, debug, t) ==
    IF ~data.isString THEN Processed(buf, <<>>, FALSE, <<>>)
    ELSE Let(parse(data.toks, debug, t),
             LAMBDA drawingEvent : ProcessEvent(drawingEvent, buf, cb, session))

\* originalSend.call(this, data) with originalSend a function: the payloads
\* handed to the transport.
OriginalSendDropsBinary(data) == IF data.isString THEN <<data>> ELSE <<>>
OriginalSendCall(data) == <<data>>

\* _interceptedSend(data): what reaches the original send, the new buffer,
\* the callback invocations and whether an exception reaches the caller.
Sent(forwarded, buf, cbCalls, threw, trace) ==
    [forwarded |-> forwarded, strokeBuffer |-> buf, cbCalls |-> cbCalls,
     threw |-> threw, trace |-> trace]
Observed(data, r) ==
    Sent(OriginalSendCall(data), r.strokeBuffer, r.cbCalls,
         CatchProcessingError(r.raised), <<"forward">> \o r.trace)
InterceptedSend(data, orig, rec, cur, buf, cb, debug, t) ==
    IF orig = "null" THEN Sent(<<>>, buf, <<>>, TRUE, <<>>)
    ELSE IF ~Observes(rec, cur)
    THEN Sent(OriginalSendCall(data), buf, <<>>, FALSE, <<"forward">>)
    ELSE Let(ProcessPacket(data, buf, cb, cur, debug, t), LAMBDA r : Observed(data, r))

(***************************************************************************)
(* The frames of the model.                                                *)
(***************************************************************************)
NumKeys == {"x", "y", "prevX", "px", "prevY", "py", "size", "width", "thickness",
            "opacity", "alpha", "a"}
ColorKeys == {"color", "c"}
KeyOrder == <<"x", "y", "prevX", "px", "prevY", "py", "size", "width", "thickness",
              "color", "c", "opacity", "alpha", "a">>
KeyIndex(key) == CHOOSE i \in 1..Len(KeyOrder) : KeyOrder[i] = key
NumVals == {JNum(0), JNum(7)}
ColorVals == {JStr(<<"#ff0000">>)}
Members == {Member(<<key>>, v) : key \in NumKeys, v \in NumVals}
           \cup {Member(<<key>>, v) : key \in ColorKeys, v \in ColorVals}

\* Argument objects with at most MaxFields members, keys all different.
MemberSeqs ==
    UNION {{m \in [1..len -> Members] :
              \A i \in 1..(len - 1) : KeyIndex(m[i].key[1]) < KeyIndex(m[i + 1].key[1])}
           : len \in 0..MaxFields}
ArgObjects == {JObj(m) : m \in MemberSeqs}

EventNames == {"draw", "clear", "undo", "line", "stroke", "path"}
EventArray(name, arg) == JArr(<<JStr(<<name>>), arg>>)

\* One input of the parser: the engine and message type digits, the
\* namespace part, the acknowledgement id part, and the payload, both as the
\* value the host serialized (undefined for text that is no JSON) and as text.
PInput(head, ns, ack, val, body) ==
    [head |-> head, ns |-> ns, ack |-> ack, val |-> val, body |-> body]
FrameOf(in) == in.head \o in.ns \o in.ack \o in.body

Heads == {<<>>, <<"4">>, <<"4", "2">>, <<"2">>, <<"3">>, <<"4", "0">>, <<"4", "3">>,
          <<"4", "5">>}
Namespaces == {<<>>, <<"/", "game", ",">>, <<"/", "game">>}
AckIds == {<<>>, <<"1", "2", ",">>, <<"1", "2">>}
OtherPayloads ==
    {EventArray("draw", JObj(<<Member(<<"x">>, JNum(7)), Member(<<"a">>, JNum(0))>>)),
     EventArray("chat", JObj(<<Member(<<"x">>, JNum(7))>>)),
     EventArray("draw", JNull), EventArray("line", JNum(0)), EventArray("path", JNum(7)),
     EventArray("stroke", JStr(<<"abc">>)), EventArray("draw", JArr(<<>>)),
     JArr(<<JStr(<<"draw">>)>>), JArr(<<JStr(<<"clear">>)>>),
     JArr(<<JArr(<<JStr(<<"draw">>)>>), EmptyObj>>),
     JArr(<<JNum(7), EmptyObj>>), JArr(<<>>),
     JObj(<<Member(<<"x">>, JNum(7))>>), JStr(<<"draw">>), JNum(7), JNull}
Garbage == {<<>>, <<"[", QUOTE, "draw">>, <<"[", QUOTE, "draw", QUOTE, ",">>, <<"hello">>}

PInputs ==
    {PInput(<<"4", "2">>, <<>>, <<>>, EventArray(name, arg),
            Stringify(EventArray(name, arg)))
       : name \in EventNames, arg \in ArgObjects}
    \cup {PInput(h, ns, ack, v, Stringify(v))
            : h \in Heads, ns \in Namespaces, ack \in AckIds, v \in OtherPayloads}
    \cup {PInput(h, ns, ack, JUndef, g)
            : h \in Heads, ns \in Namespaces, ack \in AckIds, g \in Garbage}

POutput(stage, event, point) == [stage |-> stage, event |-> event, point |-> point]
NoInput == PInput(<<>>, <<>>, <<>>, JUndef, <<>>)
NoOutput == POutput("input", NoEvent(<<>>), NoPoint)

\* The payloads the host sends through the socket while the Recorder runs.
DrawFrame == <<"4", "2">> \o Stringify(EventArray("draw",
                 JObj(<<Member(<<"x">>, JNum(7)), Member(<<"y">>, JNum(7))>>)))
ClearFrame == <<"4", "2">> \o Stringify(JArr(<<JStr(<<"clear">>)>>))
ChatFrame == <<"4", "2">> \o Stringify(EventArray("chat", EmptyObj))
BinaryPayload == Payload(FALSE, <<"blob">>)
DrawPayload == Payload(TRUE, DrawFrame)
Payloads == {Payload(TRUE, f) : f \in {DrawFrame, ClearFrame, ChatFrame}}
            \cup {BinaryPayload}

(***************************************************************************)
(* The IO module (createIO): exportRecording writes a session as JSON text *)
(* (the indentation JSON.stringify adds is white space, which JSON.parse   *)
(* skips, and is left out), importRecording reads such a file.             *)
(***************************************************************************)
\* A stroke point as the object it is: its properties in the order of the
\* object literal, those the literal does not have left out.
Defined(ms) == SelectSeq(ms, LAMBDA m : m.val # JUndef)
PointObject(point) ==
    JObj(Defined(<<Member(<<"type">>, point.type), Member(<<"x">>, point.x),
                   Member(<<"y">>, point.y), Member(<<"prevX">>, point.prevX),
                   Member(<<"prevY">>, point.prevY), Member(<<"size">>, point.size),
                   Member(<<"color">>, point.color),
                   Member(<<"opacity">>, point.opacity),
                   Member(<<"time">>, JNum(point.time)),
                   Member(<<"action">>, point.action)>>))
StrokeObjects(strokes) == JArr([i \in 1..Len(strokes) |-> PointObject(strokes[i])])
SessionId(id) == JStr(<<"session_">> \o IntToDigits(id))
SessionMetadata ==
    JObj(<<Member(<<"version">>, JStr(<<"1.0">>)),
           Member(<<"source">>, JStr(<<"gartic-phone-extension">>))>>)

\* exportRecording(session): whether it succeeded and the text of the file
ExportData(session) ==
    JObj(<<Member(<<"version">>, JStr(<<"1.0">>)),
           Member(<<"format">>, JStr(<<"gartic-timelapse">>)),
           Member(<<"session">>,
                  JObj(<<Member(<<"id">>, SessionId(session.id)),
                         Member(<<"startTime">>, JNum(session.startTime)),
                         Member(<<"endTime">>, JNum(session.endTime)),
                         Member(<<"duration">>, JNum(session.endTime - session.startTime)),
                         Member(<<"strokesCount">>, JNum(Len(session.strokes)))>>)),
           Member(<<"strokes">>, StrokeObjects(session.strokes)),
           Member(<<"metadata">>, SessionMetadata)>>)
Exported(okay, text) == [ok |-> okay, text |-> text]
exportRecording(session) ==
    IF session = NullSession THEN Exported(FALSE, <<>>)
    ELSE Exported(TRUE, Stringify(ExportData(session)))

\* importRecording(file) for a file of type application/json: the promise
\* is rejected, or resolved with the session read.
Imported(settled, id, startTime, endTime, strokes, metadata) ==
    [settled |-> settled, id |-> id, startTime |-> startTime, endTime |-> endTime,
     strokes |-> strokes, metadata |-> metadata]
Rejected == Imported("rejected", JUndef, JUndef, JUndef, JUndef, JUndef)
ImportedFrom(data, date) ==
    IF data.k = "null" THEN Rejected
    ELSE Imported("resolved",
                  Or(Get(Get(data, <<"session">>), <<"id">>),
                     JStr(<<"imported_">> \o IntToDigits(date))),
                  Or(Get(Get(data, <<"session">>), <<"startTime">>), JNum(0)),
                  Or(Get(Get(data, <<"session">>), <<"endTime">>), JNum(0)),
                  Or(Get(data, <<"strokes">>), JArr(<<>>)),
                  Or(Get(data, <<"metadata">>), EmptyObj))
importRecording(text, date) ==
    Let(JSONParse(text),
        LAMBDA r : IF ~r.ok THEN Rejected ELSE ImportedFrom(r.val, date))

IO(stage, session, file, imported) ==
    [stage |-> stage, session |-> session, file |-> file, imported |-> imported]
NoIO == IO("none", NullSession, <<>>, Rejected)
IOIdle == io = NoIO

(***************************************************************************)
(* The userscript: main(), the ModulesManager, the Timelapse module        *)
(* (createTimelapseModule) and, as far as the manager sees it, the Painter *)
(* module.  Modules are ES modules, which run in strict mode; the bundled  *)
(* userscript is a plain function body, which does not.  strict tells      *)
(* which: an assignment to isEnabled, which the module objects define with *)
(* a getter only, throws a TypeError in strict mode and does nothing       *)
(* otherwise.                                                              *)
(*                                                                         *)
(* The document is what the module asks of it: phase is the answer of      *)
(* _detectPhase(), images the number of elements matching the result image *)
(* selector, canvas whether the Painter's canvas is there.  resultImages   *)
(* and imageWrappers, which the module only writes and clears, are left    *)
(* out, and so are the styles and elements it creates.                     *)
(***************************************************************************)
MaxImages == 1
MaxListeners == 6
MaxWaiting == 2
ListenersPerImage == 3
ModuleNames == <<"Painter", "Timelapse">>
Dom(phase, images, canvas) == [phase |-> phase, images |-> images, canvas |-> canvas]
EmptyDom == Dom("unknown", 0, FALSE)
Doms == {Dom(phase, images, canvas) :
           phase \in {"lobby", "game", "album"}, images \in 0..MaxImages,
           canvas \in BOOLEAN}
        \cup {Dom("unknown", 0, canvas) : canvas \in BOOLEAN}

\* createModulesManager(), createPainterModule() and createTimelapseModule()
NewApp(strict) ==
    [strict |-> strict, modules |-> <<>>, started |-> FALSE,
     painter |-> [isEnabled |-> FALSE, initialising |-> FALSE],
     isEnabled |-> FALSE, recorder |-> FALSE, player |-> FALSE, ui |-> FALSE,
     phaseObserver |-> FALSE, currentPhase |-> "null", eventListeners |-> 0,
     waiting |-> 0, session |-> NullSession, dom |-> EmptyDom,
     last |-> "load", threw |-> FALSE, destroyed |-> FALSE]
NoApp == NewApp(TRUE)

\* A call of findComponent: the fibers are numbered from 1 and 0 is null;
\* tree[f] holds the child, sibling and return of fiber f; the predicate is
\* true of the fibers in matching.
Fib(stage, tree, fiber, matching, result) ==
    [stage |-> stage, tree |-> tree, fiber |-> fiber, matching |-> matching,
     result |-> result]
NoFib == Fib("none", <<>>, 0, {}, 0)

\* Two Recorders, "A" and "B", made by two calls of createRecorder: send is
\* WebSocket.prototype.send, "native" or the _interceptedSend of A or of B;
\* everInit and live tell which Recorders have had init() called and which
\* of them have not been destroyed since; reached counts how often the frame
\* of the last send reached the native send, and observed are the Recorders
\* that went on to look at it.
Recorders == {"A", "B"}
Pair(send, originals, recording, everInit, live, last, reached, threw, observed) ==
    [send |-> send, originalSend |-> originals, isRecording |-> recording,
     everInit |-> everInit, live |-> live, last |-> last, reached |-> reached,
     threw |-> threw, observed |-> observed]
NewPair == Pair("native", [r \in Recorders |-> "null"], [r \in Recorders |-> FALSE],
                {}, {}, "create", 0, FALSE, {})
RestIdle == IOIdle /\ app = NoApp /\ fib = NoFib /\ pair = NewPair

(***************************************************************************)
(* The Player (createPlayer).  A world is the Player's closure variables   *)
(* together with the browser's pending animation frames and the canvas,    *)
(* and, for the call in progress, its return value, whether an exception   *)
(* left it, the notifications it emitted and what it drew.                 *)
(***************************************************************************)
MaxStrokes == 4
MaxDepth == 1

Ratio(num, den) == [num |-> num, den |-> den]
Note(state, progress, currentStroke, totalStrokes) ==
    [state |-> state, progress |-> progress, currentStroke |-> currentStroke,
     totalStrokes |-> totalStrokes]
\* One drawing operation on the canvas: clearRect, a dot (arc and fill) for
\* stroke i, or a segment from stroke prev to stroke i (strokes are numbered
\* from 1 here, prev = 0 is prevPoint = null).
Drawn(kind, session, i, prev) == [kind |-> kind, session |-> session, i |-> i, prev |-> prev]

Canvas(width, height) == [width |-> width, height |-> height]
NoCanvas == Canvas(-1, -1)
\* The canvas since it was last cleared: the numbers of the strokes drawn
\* on it, in order, up to SurfaceCap of them; full tells that more were drawn.
SurfaceCap == MaxStrokes
Surface(ops, full) == [ops |-> ops, full |-> full]
EmptySurface == Surface(<<>>, FALSE)

\* The callbacks a caller may register: none, one that returns, one that
\* throws, and those that call back into the Player; "logs" is a second
\* observer that returns.
ReactingCallbacks == {"play", "pause", "resume", "stop", "destroy"}
PlainCallbacks == {"none", "returns"}
PlainObservers == {"none", "returns", "logs"}
StateObservers == {"none", "throws", "play", "pause", "stop", "destroy"}
CompleteObservers == {"none", "throws", "play"}

NewPlayer(loop) ==
    [currentSession |-> NullSession, canvas |-> NoCanvas, ctx |-> FALSE,
     isPlaying |-> FALSE, isPaused |-> FALSE, currentStrokeIndex |-> 0,
     animationFrameId |-> 0, onStateChangeCallback |-> "none",
     onCompleteCallback |-> "none", speed |-> 50, loop |-> loop]

World(p, frames, canvasSurface) ==
    [p |-> p, pending |-> frames, surface |-> canvasSurface, ret |-> "undefined",
     threw |-> FALSE, notes |-> <<>>, notified |-> <<>>, drawn |-> <<>>]
Ret(w, value) == [w EXCEPT !.ret = value]
Throw(w) == [w EXCEPT !.threw = TRUE, !.ret = "threw"]

\* requestAnimationFrame(_animationLoop) and cancelAnimationFrame(animationFrameId)
RequestNoFrame(w) == w
RequestFrame(w) ==
    LET id == Fresh(w.pending \cup {w.p.animationFrameId, 0}) IN
    [w EXCEPT !.pending = @ \cup {id}, !.p.animationFrameId = id]
CancelNoFrame(w) == w
CancelFrame(w) == [w EXCEPT !.pending = @ \ {w.p.animationFrameId}]

\* getProgress()
ProgressOf(p) ==
    IF p.currentSession = NullSession \/ Len(p.currentSession.strokes) = 0
    THEN Ratio(0, 1)
    ELSE Ratio(p.currentStrokeIndex, Len(p.currentSession.strokes))
TotalStrokesZero(p) == 0
TotalStrokes(p) ==
    IF p.currentSession = NullSession THEN 0 ELSE Len(p.currentSession.strokes)

\* _clearCanvas()
clearCanvasNever(w) == w
clearCanvas(w) ==
    IF w.p.ctx /\ w.p.canvas # NoCanvas
    THEN [w EXCEPT !.surface = EmptySurface,
                   !.drawn = Append(@, Drawn("clear", NoId, 0, 0))]
    ELSE w

\* _drawPoint(point, prevPoint) for the strokes i and prev of the session
Paint(w, d) ==
    [w EXCEPT !.drawn = Append(@, d),
              !.surface = IF Len(@.ops) < SurfaceCap
                          THEN [@ EXCEPT !.ops = Append(@, d.i)]
                          ELSE [@ EXCEPT !.full = TRUE]]
drawPointTwice(w, i, prev) ==
    Paint(Paint(w, Drawn("dot", w.p.currentSession.id, i, prev)),
          Drawn("dot", w.p.currentSession.id, i, prev))
drawPoint(w, i, prev) ==
    IF ~w.p.ctx THEN w
    ELSE Paint(w, Drawn(IF prev = 0 THEN "dot" ELSE "segment",
                        w.p.currentSession.id, i, prev))

\* The loops of _animationLoop and seek: the strokes i .. last are drawn in
\* order, the first with prevPoint = prev, each next one with the one before.
RECURSIVE DrawRun(_, _, _, _)
DrawRun(w, i, last, prev) ==
    IF i > last THEN w ELSE DrawRun(drawPoint(w, i, prev), i + 1, last, i)

MinUnbounded(a, b) == a
Min(a, b) == IF a < b THEN a ELSE b
Max(a, b) == IF a > b THEN a ELSE b

(***************************************************************************)
(* JavaScript numbers are IEEE 754 doubles.  A double is kept here as an   *)
(* integer mantissa m and an exponent e, its value m * 2^e; the mantissa   *)
(* is a sequence of limbs of LimbBits bits, the least significant first    *)
(* (<<>> is 0).  Every result is rounded to 53 significant bits, to the    *)
(* nearest, ties to the even mantissa, as the hardware does.               *)
(***************************************************************************)
LimbBits == 15
Limb == 2^LimbBits
MantissaBits == 53

RECURSIVE BigOfInt(_)
BigOfInt(n) == IF n = 0 THEN <<>> ELSE <<n % Limb>> \o BigOfInt(n \div Limb)
RECURSIVE BigToInt(_)
BigToInt(x) == IF x = <<>> THEN 0 ELSE Head(x) + Limb * BigToInt(Tail(x))
RECURSIVE Trim(_)
Trim(x) ==
    IF x = <<>> \/ x[Len(x)] # 0 THEN x ELSE Trim(SubSeq(x, 1, Len(x) - 1))
\* x * n + carry for a big x and n, carry < Limb
RECURSIVE BigMulSmall(_, _, _)
BigMulSmall(x, n, carry) ==
    IF x = <<>> THEN BigOfInt(carry)
    ELSE <<(Head(x) * n + carry) % Limb>>
         \o BigMulSmall(Tail(x), n, (Head(x) * n + carry) \div Limb)
\* quotient and remainder of a big x by d <= Limb
RECURSIVE BigDivSmall(_, _)
BigDivSmall(x, d) ==
    IF x = <<>> THEN [q |-> <<>>, r |-> 0]
    ELSE Let(BigDivSmall(Tail(x), d),
             LAMBDA hi : [q |-> <<(hi.r * Limb + Head(x)) \div d>> \o hi.q,
                          r |-> (hi.r * Limb + Head(x)) % d])
RECURSIVE BigIncrement(_)
BigIncrement(x) ==
    IF x = <<>> THEN <<1>>
    ELSE IF Head(x) + 1 < Limb THEN <<Head(x) + 1>> \o Tail(x)
    ELSE <<0>> \o BigIncrement(Tail(x))
RECURSIVE BitsOf(_)
BitsOf(n) == IF n = 0 THEN 0 ELSE 1 + BitsOf(n \div 2)
BitLength(x) == IF x = <<>> THEN 0 ELSE LimbBits * (Len(x) - 1) + BitsOf(x[Len(x)])
BigIsOdd(x) == x # <<>> /\ Head(x) % 2 = 1

Double(m, e) == [m |-> m, e |-> e]
DoubleOfInt(n) == Double(BigOfInt(n), 0)
\* The double nearest to m * 2^e, of which inexact tells that bits below m
\* were already dropped; m has at most MantissaBits + LimbBits bits.
RoundHalfEven(d, k, inexact) ==
    IF 2 * d.r > 2^k \/ (2 * d.r = 2^k /\ (inexact \/ BigIsOdd(Trim(d.q))))
    THEN BigIncrement(Trim(d.q))
    ELSE Trim(d.q)
RoundToDouble(m, e, inexact) ==
    Let(BitLength(m) - MantissaBits,
        LAMBDA k : IF k <= 0 THEN Double(m, e)
                   ELSE Double(RoundHalfEven(BigDivSmall(m, 2^k), k, inexact), e + k))
\* a / b for integers 0 < a, b < Limb with a / b >= 2^-7
DoubleDivide(a, b) ==
    Let(BigDivSmall(<<0, 0, 0, 0, a>>, b),
        LAMBDA d : RoundToDouble(Trim(d.q), -4 * LimbBits, d.r # 0))
\* x * y for doubles of which y has a mantissa below Limb
DoubleTimesSmall(x, y) ==
    IF x.m = <<>> \/ y.m = <<>> THEN Double(<<>>, 0)
    ELSE RoundToDouble(Trim(BigMulSmall(x.m, Head(y.m), 0)), x.e + y.e, FALSE)
DoubleTimes(x, y) ==
    IF Len(y.m) <= 1 THEN DoubleTimesSmall(x, y) ELSE DoubleTimesSmall(y, x)
\* Math.floor of a double x >= 0 below 2^31
RECURSIVE DropBits(_, _)
DropBits(m, k) ==
    IF m = <<>> \/ k = 0 THEN m
    ELSE IF k >= LimbBits THEN DropBits(Tail(m), k - LimbBits)
    ELSE BigDivSmall(m, 2^k).q
MathFloor(x) ==
    IF x.e >= 0 THEN BigToInt(x.m) * 2^x.e ELSE BigToInt(DropBits(x.m, -x.e))

\* _calculateStrokesPerFrame(deltaTime) for an integer speed and a deltaTime
\* of a whole number of milliseconds
oneStrokePerFrame(speed, deltaTime) == 1
baseStrokesPerMs == Double(<<1>>, -4)
strokesPerMs(speed) == DoubleTimes(baseStrokesPerMs, DoubleDivide(speed, 50))
calculateStrokesPerFrame(speed, deltaTime) ==
    IF speed >= 100 THEN (speed - 99) * 10
    ELSE Max(1, MathFloor(DoubleTimes(strokesPerMs(speed), DoubleOfInt(deltaTime))))

\* The operations of the Player on a world.  depth counts the callbacks the
\* call is nested in: a reacting callback calls back into the Player unless
\* MaxDepth callbacks are already running.
RECURSIVE CallBack(_, _, _), notifyStateChange(_, _, _), play(_, _), pause(_, _),
          resume(_, _), stop(_, _), destroy(_, _)

\* _notifyStateChange(state)
notifyStateChange(w, state, depth) ==
    IF w.p.onStateChangeCallback = "none" THEN w
    ELSE CallBack([w EXCEPT !.notes = Append(@, Note(state, ProgressOf(w.p),
                                                     w.p.currentStrokeIndex,
                                                     TotalStrokes(w.p))),
                            !.notified = Append(@, w.p.onStateChangeCallback)],
                  w.p.onStateChangeCallback, depth)

\* What the rest of an operation does after a call that may have thrown.
Returning(w, value) == IF w.threw THEN w ELSE Ret(w, value)

\* play()
play(w, depth) ==
    IF w.p.currentSession = NullSession THEN Ret(w, "false")
    ELSE IF w.p.isPlaying /\ ~w.p.isPaused THEN Ret(w, "false")
    ELSE Returning(notifyStateChange(
                       RequestFrame([w EXCEPT !.p.isPlaying = TRUE,
                                              !.p.isPaused = FALSE]),
                       "playing", depth),
                   "true")

\* pause()
pause(w, depth) ==
    IF ~w.p.isPlaying \/ w.p.isPaused THEN Ret(w, "false")
    ELSE Returning(notifyStateChange(CancelFrame([w EXCEPT !.p.isPaused = TRUE]),
                                     "paused", depth),
                   "true")

\* resume()
resume(w, depth) ==
    IF ~w.p.isPlaying \/ ~w.p.isPaused THEN Ret(w, "false")
    ELSE Returning(notifyStateChange(RequestFrame([w EXCEPT !.p.isPaused = FALSE]),
                                     "playing", depth),
                   "true")

\* stop()
stop(w, depth) ==
    IF ~w.p.isPlaying THEN Ret(w, "false")
    ELSE Returning(notifyStateChange(
                       clearCanvas([CancelFrame([w EXCEPT !.p.isPlaying = FALSE,
                                                          !.p.isPaused = FALSE])
                                      EXCEPT !.p.currentStrokeIndex = 0]),
                       "stopped", depth),
                   "true")

\* destroy(): after stop(), the canvas is removed and the callbacks and the
\* session are dropped.
Destroyed(w) ==
    IF w.threw THEN w
    ELSE Ret([w EXCEPT !.p.canvas = NoCanvas, !.p.ctx = FALSE,
                       !.p.onStateChangeCallback = "none",
                       !.p.onCompleteCallback = "none",
                       !.p.currentSession = NullSession,
                       !.surface = EmptySurface],
             "undefined")
destroy(w, depth) == Destroyed(stop(w, depth))

\* A registered callback is called.
CallBack(w, cb, depth) ==
    IF cb = "throws" THEN Throw(w)
    ELSE IF cb \notin ReactingCallbacks \/ depth >= MaxDepth THEN w
    ELSE IF cb = "play" THEN play(w, depth + 1)
    ELSE IF cb = "pause" THEN pause(w, depth + 1)
    ELSE IF cb = "resume" THEN resume(w, depth + 1)
    ELSE IF cb = "stop" THEN stop(w, depth + 1)
    ELSE destroy(w, depth + 1)

\* seek(progress), progress given as a fraction num / den of which den is a
\* power of two, so that the fraction is a double and its product with the
\* number of strokes is exact
ClampNever(progress) == progress
Clamp01(progress) ==
    IF progress.num < 0 THEN Ratio(0, 1)
    ELSE IF progress.num > progress.den THEN Ratio(1, 1)
    ELSE progress
TargetIndex(progress, n) == (Clamp01(progress).num * n) \div Clamp01(progress).den
seek(w, progress, depth) ==
    IF w.p.currentSession = NullSession THEN Ret(w, "false")
    ELSE Let(TargetIndex(progress, Len(w.p.currentSession.strokes)),
             LAMBDA targetIndex :
               Returning(notifyStateChange(
                             [DrawRun(clearCanvas(w), 1, targetIndex, 0)
                                EXCEPT !.p.currentStrokeIndex = targetIndex],
                             "seeked", depth),
                         "true"))

\* loadSession(session)
RECURSIVE MaxOver(_, _, _)
MaxOver(strokes, i, acc) ==
    IF i > Len(strokes) THEN acc ELSE MaxOver(strokes, i + 1, Max(acc, strokes[i]))
CanvasFor(session) ==
    Canvas(MaxOver([i \in 1..Len(session.strokes) |-> session.strokes[i].x.n], 1, 0) + 100,
           MaxOver([i \in 1..Len(session.strokes) |-> session.strokes[i].y.n], 1, 0) + 100)
loadSessionKeepsCursor(w, session) ==
    IF session = NullSession \/ Len(session.strokes) = 0 THEN Ret(w, "false")
    ELSE Ret(IF w.p.canvas = NoCanvas
             THEN [w EXCEPT !.p.currentSession = session,
                            !.p.canvas = CanvasFor(session), !.p.ctx = TRUE,
                            !.surface = EmptySurface]
             ELSE [w EXCEPT !.p.currentSession = session],
             "true")
loadSessionUnchecked(w, session) ==
    Ret(IF w.p.canvas = NoCanvas
        THEN [w EXCEPT !.p.currentSession = session, !.p.currentStrokeIndex = 0,
                       !.p.canvas = CanvasFor(session), !.p.ctx = TRUE,
                       !.surface = EmptySurface]
        ELSE [w EXCEPT !.p.currentSession = session, !.p.currentStrokeIndex = 0],
        "true")
loadSession(w, session) ==
    IF session = NullSession \/ Len(session.strokes) = 0 THEN Ret(w, "false")
    ELSE Ret(IF w.p.canvas = NoCanvas
             THEN [w EXCEPT !.p.currentSession = session, !.p.currentStrokeIndex = 0,
                            !.p.canvas = CanvasFor(session), !.p.ctx = TRUE,
                            !.surface = EmptySurface]
             ELSE [w EXCEPT !.p.currentSession = session, !.p.currentStrokeIndex = 0],
             "true")

\* setSpeed(speed)
setSpeed(w, speed) == [w EXCEPT !.p.speed = Max(1, Min(200, speed))]

\* setOnStateChange(callback), setOnComplete(callback)
setOnStateChange(w, callback) == [w EXCEPT !.p.onStateChangeCallback = callback]
setOnComplete(w, callback) == [w EXCEPT !.p.onCompleteCallback = callback]

\* _onComplete()
CompletedTwice(w, depth) ==
    notifyStateChange(notifyStateChange(w, "completed", depth), "completed", depth)
Completed(w, depth) ==
    IF w.threw THEN w ELSE notifyStateChange(w, "completed", depth)
onComplete(w, depth) ==
    Let(CancelFrame([w EXCEPT !.p.isPlaying = FALSE, !.p.isPaused = FALSE]),
        LAMBDA c :
          IF c.p.loop THEN play(c, depth)
          ELSE IF c.p.onCompleteCallback = "none" THEN Completed(c, depth)
          ELSE Completed(CallBack(c, c.p.onCompleteCallback, depth), depth))

\* _animationLoop(timestamp) with deltaTime = timestamp - lastFrameTime
animationLoop(w, deltaTime, depth) ==
    IF ~w.p.isPlaying \/ w.p.isPaused THEN w
    ELSE IF w.p.currentSession = NullSession
            \/ w.p.currentStrokeIndex >= Len(w.p.currentSession.strokes)
    THEN Returning(onComplete(w, depth), "undefined")
    ELSE Let(Min(w.p.currentStrokeIndex
                   + calculateStrokesPerFrame(w.p.speed, deltaTime),
                 Len(w.p.currentSession.strokes)),
             LAMBDA last :
               RequestFrame([DrawRun(w, w.p.currentStrokeIndex + 1, last, 0)
                               EXCEPT !.p.currentStrokeIndex = last]))

StrokesToDraw(speed, deltaTime, strokes) ==
    [speed |-> speed, deltaTime |-> deltaTime, strokes |-> strokes]
NoStrokesToDraw == StrokesToDraw(0, 0, 0)

PlayerOp(op, w) ==
    [op |-> op, ret |-> w.ret, threw |-> w.threw, notes |-> w.notes,
     notified |-> w.notified, drawn |-> w.drawn]
TheWorld == World(player, pending, surface)

\* createPlayer(config), config giving loop
PlayerCreated(loop) ==
    /\ player = NewPlayer(loop)
    /\ pending = {}
    /\ surface = EmptySurface
    /\ pLast = PlayerOp("createPlayer", World(NewPlayer(loop), {}, EmptySurface))
    /\ strokesToDraw = NoStrokesToDraw

(***************************************************************************)
(* Operations of the Recorder and of the host.                             *)
(***************************************************************************)
RecorderCreated ==
    /\ wsSend = "native"
    /\ isRecording = FALSE
    /\ currentSession = NullSession
    /\ strokeBuffer = <<>>
    /\ originalSend = "null"
    /\ onDataCallback = "none"
    /\ debugMode = FALSE
    /\ now = 0
    /\ idSeq = 0
    /\ lastOp = PlainOp("createRecorder", NullSession)
    /\ hostPhase = "idle"
    /\ sent = <<>>
    /\ restarted = FALSE
    /\ arrays = Arrays(1, NoArray, NoArray)
    /\ held = NullSession
    /\ returned = NullSession
    /\ pIn = NoInput
    /\ pOut = NoOutput

Init == RecorderCreated /\ PlayerCreated(FALSE) /\ RestIdle

\* The host's record of sent payloads after a call other than send,
\* startRecording and stopRecording.
KeptSent == IF hostPhase = "started" THEN sent ELSE <<>>

\* init(); the Step of a call is what it does to the Recorder
RecorderInitStep ==
    LET p == PatchWebSocket(originalSend, wsSend) IN
    /\ originalSend' = p.originalSend
    /\ wsSend' = p.wsSend
    /\ lastOp' = Call("init", p.warned, NullSession)
    /\ sent' = KeptSent
    /\ UNCHANGED <<isRecording, currentSession, strokeBuffer, onDataCallback,
                   debugMode, now, idSeq, hostPhase, restarted, arrays, held,
                   returned, pIn, pOut>>
RecorderInit == RecorderInitStep /\ UNCHANGED <<playerVars, otherVars>>

\* startRecording(), orig and ws being originalSend and WebSocket.prototype.send
StartRecordingFrom(orig, ws) ==
    /\ idSeq < MaxSessions
    /\ \E r \in {StartRecordingOn(isRecording, currentSession, strokeBuffer,
                                   orig, ws, idSeq + 1, now)} :
          /\ originalSend' = r.originalSend
          /\ wsSend' = r.wsSend
          /\ idSeq' = idSeq + 1
          /\ currentSession' = r.currentSession
          /\ strokeBuffer' = r.strokeBuffer
          /\ isRecording' = r.isRecording
          /\ lastOp' = Call("startRecording", r.warned, r.currentSession)
          /\ restarted' = (r.dropped # <<>>)
          /\ \E a \in {StartArrays(arrays, isRecording)} :
                /\ arrays' = Canon(a)
                /\ held' = [held EXCEPT
                              !.strokes = Through(a, "held", @, r.strokeBuffer)]
    /\ hostPhase' = "started"
    /\ sent' = <<>>
    /\ UNCHANGED <<onDataCallback, debugMode, now, returned, pIn, pOut>>
StartRecordingStep == StartRecordingFrom(originalSend, wsSend)
StartRecording == StartRecordingStep /\ UNCHANGED <<playerVars, otherVars>>

\* stopRecording(); keeps tells whether the caller keeps the session it
\* gets (the Timelapse module logs its stroke count and drops it).
StopRecordingStep(keeps) ==
    LET r == StopRecordingOn(isRecording, currentSession, strokeBuffer, now) IN
    /\ isRecording' = r.isRecording
    /\ currentSession' = r.currentSession
    /\ strokeBuffer' = r.strokeBuffer
    /\ lastOp' = Call("stopRecording", r.warned, r.result)
    /\ hostPhase' = IF hostPhase = "started" THEN "stopped" ELSE "idle"
    /\ IF r.result = NullSession
       THEN UNCHANGED <<arrays, held, returned>>
       ELSE \E a \in {StopArrays(arrays)} :
              IF keeps
              THEN /\ arrays' = Canon(Arrays(a.buffer, a.session, a.result))
                   /\ held' = [r.result EXCEPT
                                 !.strokes =
                                    Through(Arrays(a.buffer, a.session, a.result),
                                            "held", @, r.strokeBuffer)]
                   /\ returned' = r.result
              ELSE /\ arrays' = Canon(Arrays(a.buffer, a.session, a.held))
                   /\ held' = [held EXCEPT
                                 !.strokes = Through(a, "held", @, r.strokeBuffer)]
                   /\ UNCHANGED returned
    /\ UNCHANGED <<wsSend, originalSend, onDataCallback, debugMode, now, idSeq,
                   sent, restarted, pIn, pOut>>
StopRecordingBy(keeps) == StopRecordingStep(keeps) /\ UNCHANGED <<playerVars, otherVars>>

StopRecording == StopRecordingBy(FALSE)

\* destroy()
DestroyStep ==
    LET r == IF isRecording
             THEN StopRecordingOn(isRecording, currentSession, strokeBuffer, now)
             ELSE [isRecording |-> isRecording, currentSession |-> currentSession,
                   strokeBuffer |-> strokeBuffer, result |-> NullSession,
                   warned |-> <<>>]
        u == UnpatchWebSocket(originalSend, wsSend)
    IN
    /\ isRecording' = r.isRecording
    /\ currentSession' = r.currentSession
    /\ originalSend' = u.originalSend
    /\ wsSend' = u.wsSend
    /\ strokeBuffer' = <<>>
    /\ onDataCallback' = "none"
    /\ lastOp' = Call("destroy", r.warned \o u.warned, NullSession)
    /\ hostPhase' = "idle"
    /\ sent' = KeptSent
    /\ \E a \in {DestroyArrays(arrays, isRecording)} :
          /\ arrays' = Canon(a)
          /\ held' = [held EXCEPT !.strokes = Through(a, "held", @, <<>>)]
    /\ UNCHANGED <<debugMode, now, idSeq, restarted, returned, pIn, pOut>>
Destroy == DestroyStep /\ UNCHANGED <<playerVars, otherVars>>

\* setOnDataCallback(callback)
SetOnDataCallback(cb) ==
    /\ onDataCallback' = cb
    /\ lastOp' = PlainOp("setOnDataCallback", NullSession)
    /\ sent' = KeptSent
    /\ UNCHANGED <<wsSend, isRecording, currentSession, strokeBuffer, originalSend,
                   debugMode, now, idSeq, hostPhase, restarted, arrays, held,
                   returned, pIn, pOut, playerVars, otherVars>>

\* The host calls socket.send(data): WebSocket.prototype.send is either the
\* native function or _interceptedSend.
Send(data) ==
    /\ hostPhase = "started" => Len(sent) < MaxSent
    /\ \E r \in {IF wsSend = "native"
                 THEN Sent(<<data>>, strokeBuffer, <<>>, FALSE, <<"forward">>)
                 ELSE InterceptedSend(data, originalSend, isRecording, currentSession,
                                      strokeBuffer, onDataCallback, debugMode, now)} :
          /\ strokeBuffer' = r.strokeBuffer
          /\ currentSession' =
                [currentSession EXCEPT
                   !.strokes = Through(arrays, "session", @, r.strokeBuffer)]
          /\ held' = [held EXCEPT !.strokes = Through(arrays, "held", @, r.strokeBuffer)]
          /\ lastOp' = Op("send", data, r.forwarded, r.threw, r.trace, r.cbCalls,
                          NullSession)
    /\ sent' = IF hostPhase = "started" THEN Append(sent, data) ELSE <<>>
    /\ UNCHANGED <<wsSend, isRecording, originalSend, onDataCallback,
                   debugMode, now, idSeq, hostPhase, restarted, arrays,
                   returned, pIn, pOut, playerVars, otherVars>>

\* Time passes between two calls.
Tick ==
    /\ now < MaxNow
    /\ now' = now + 1
    /\ UNCHANGED <<wsSend, isRecording, currentSession, strokeBuffer, originalSend,
                   onDataCallback, debugMode, idSeq, lastOp, hostPhase, sent,
                   restarted, arrays, held, returned, pIn, pOut, playerVars, otherVars>>

Next ==
    \/ RecorderInit
    \/ StartRecording
    \/ StopRecording
    \/ Destroy
    \/ \E cb \in Callbacks : SetOnDataCallback(cb)
    \/ \E data \in Payloads : Send(data)
    \/ Tick

Spec == Init /\ [][Next]_vars

(***************************************************************************)
(* The Recorder with a caller that keeps the session stopRecording()       *)
(* returns while it goes on using the Recorder.                            *)
(***************************************************************************)
StopRecordingAndKeep == StopRecordingBy(TRUE)

\* The host sends a frame of a stroke.
SendDraw == Send(DrawPayload)

NextKeep ==
    \/ StartRecording
    \/ StopRecordingAndKeep
    \/ Destroy
    \/ SendDraw
    \/ Tick

SpecKeep == Init /\ [][NextKeep]_vars

(***************************************************************************)
(* The parser on its own: debug mode is set, one frame is parsed, and the   *)
(* resulting event is converted as the Recorder converts it.  The          *)
(* Recorder's setDebugMode only forwards to the parser's.                  *)
(***************************************************************************)
InitParse ==
    /\ wsSend = "native"
    /\ isRecording = FALSE
    /\ currentSession = NullSession
    /\ strokeBuffer = <<>>
    /\ originalSend = "null"
    /\ onDataCallback = "none"
    /\ debugMode = FALSE
    /\ now = 0
    /\ idSeq = 0
    /\ lastOp = PlainOp("createRecorder", NullSession)
    /\ hostPhase = "idle"
    /\ sent = <<>>
    /\ restarted = FALSE
    /\ arrays = Arrays(1, NoArray, NoArray)
    /\ held = NullSession
    /\ returned = NullSession
    /\ pIn \in PInputs
    /\ pOut = NoOutput
    /\ PlayerCreated(FALSE)
    /\ RestIdle

\* setDebugMode(enabled)
SetDebugMode(enabled) ==
    /\ pOut.stage = "input"
    /\ debugMode' = enabled
    /\ UNCHANGED <<wsSend, isRecording, currentSession, strokeBuffer, originalSend,
                   onDataCallback, now, idSeq, lastOp, hostPhase, sent, restarted,
                   arrays, held, returned, pIn, pOut, playerVars, otherVars>>

\* parse(rawPacket)
ParseFrame ==
    /\ pOut.stage = "input"
    /\ pOut' = POutput("parsed", parse(FrameOf(pIn), debugMode, now), NoPoint)
    /\ UNCHANGED <<pIn, recVars, playerVars, otherVars>>

\* _convertToStrokePoint(drawingEvent), called when parse returned an event
ConvertEvent ==
    /\ pOut.stage = "parsed"
    /\ pOut.event.kind = "event"
    /\ pOut' = POutput("converted", pOut.event, ConvertToStrokePoint(pOut.event))
    /\ UNCHANGED <<pIn, recVars, playerVars, otherVars>>

NextParse ==
    \/ \E enabled \in BOOLEAN : SetDebugMode(enabled)
    \/ ParseFrame
    \/ ConvertEvent

SpecParse == InitParse /\ [][NextParse]_vars

(***************************************************************************)
(* The Player driven by a caller and by the browser's animation frames.    *)
(***************************************************************************)
LinePoint(x, y) ==
    Point(JStr(<<"line">>), JNum(x), JNum(y), JNull, JNull, DefaultSize, DefaultColor,
          DefaultOpacity, 0, JUndef)
MarkerPoint ==
    Point(JStr(<<"clear">>), JNum(0), JNum(0), JUndef, JUndef, JNum(0), DefaultColor,
          JNum(0), 0, JStr(<<"clear">>))
\* The sessions handed to loadSession: none, one without strokes, one with
\* a single stroke, and one with MaxStrokes strokes, the third a clear marker.
EmptySession == Session(3, 0, 1, <<>>)
ShortSession == Session(2, 0, 1, <<LinePoint(10 * MaxStrokes, MaxStrokes)>>)
LongSession ==
    Session(1, 0, 1, [i \in 1..MaxStrokes |->
                        IF i = 3 THEN MarkerPoint ELSE LinePoint(10 * i, i)])
SessionInputs == {NullSession, EmptySession, ShortSession, LongSession}
ProgressInputs == {Ratio(-1, 2), Ratio(1, 2), Ratio(3, 2)}
SpeedInputs == {0, 50, 250}
DeltaTimes == {0, 16, 32}

InitPlayer == RecorderCreated /\ RestIdle /\ \E loop \in BOOLEAN : PlayerCreated(loop)

\* The state after a call that ended in the world w.
Applied(op, w) ==
    /\ player' = w.p
    /\ pending' = w.pending
    /\ surface' = w.surface
    /\ pLast' = PlayerOp(op, w)
    /\ UNCHANGED <<recVars, parseVars, strokesToDraw, otherVars>>

LoadSession(session) == \E w \in {loadSession(TheWorld, session)} : Applied("loadSession", w)
Play == \E w \in {play(TheWorld, 0)} : Applied("play", w)
Pause == \E w \in {pause(TheWorld, 0)} : Applied("pause", w)
Resume == \E w \in {resume(TheWorld, 0)} : Applied("resume", w)
PlayerStop == \E w \in {stop(TheWorld, 0)} : Applied("stop", w)
Seek(progress) == \E w \in {seek(TheWorld, progress, 0)} : Applied("seek", w)
SetSpeed(speed) == \E w \in {setSpeed(TheWorld, speed)} : Applied("setSpeed", w)
SetOnStateChange(callback) ==
    \E w \in {setOnStateChange(TheWorld, callback)} : Applied("setOnStateChange", w)
SetOnComplete(callback) ==
    \E w \in {setOnComplete(TheWorld, callback)} : Applied("setOnComplete", w)
PlayerDestroy == \E w \in {destroy(TheWorld, 0)} : Applied("destroy", w)

\* The browser runs a requested animation frame.
FrameTick(deltaTime) ==
    \E frame \in pending :
      \E w \in {animationLoop(World(player, pending \ {frame}, surface), deltaTime, 0)} :
        Applied("tick", w)

NextPlayer ==
    \/ \E session \in SessionInputs : LoadSession(session)
    \/ Play
    \/ Pause
    \/ Resume
    \/ PlayerStop
    \/ \E progress \in ProgressInputs : Seek(progress)
    \/ \E speed \in SpeedInputs : SetSpeed(speed)
    \/ \E callback \in PlainCallbacks : SetOnStateChange(callback)
    \/ \E callback \in PlainCallbacks : SetOnComplete(callback)
    \/ PlayerDestroy
    \/ \E deltaTime \in DeltaTimes : FrameTick(deltaTime)

SpecPlayer == InitPlayer /\ [][NextPlayer]_vars

(***************************************************************************)
(* The Player with observers that call back into it or throw: one session, *)
(* the default speed, frames 16 ms apart.                                  *)
(***************************************************************************)
NextReentrant ==
    \/ \E session \in {NullSession, LongSession} : LoadSession(session)
    \/ Play
    \/ Pause
    \/ Resume
    \/ PlayerStop
    \/ Seek(Ratio(1, 2))
    \/ \E callback \in StateObservers : SetOnStateChange(callback)
    \/ \E callback \in CompleteObservers : SetOnComplete(callback)
    \/ PlayerDestroy
    \/ FrameTick(16)

SpecReentrant == InitPlayer /\ [][NextReentrant]_vars

(***************************************************************************)
(* The Player with an observer that the caller replaces: one session, the  *)
(* default speed, frames 16 ms apart.                                      *)
(***************************************************************************)
NextObserved ==
    \/ \E session \in {EmptySession, LongSession} : LoadSession(session)
    \/ Play
    \/ Pause
    \/ Resume
    \/ PlayerStop
    \/ Seek(Ratio(1, 2))
    \/ \E callback \in PlainObservers : SetOnStateChange(callback)
    \/ \E callback \in PlainCallbacks : SetOnComplete(callback)
    \/ FrameTick(16)

SpecObserved == InitPlayer /\ [][NextObserved]_vars

(***************************************************************************)
(* _calculateStrokesPerFrame on its own: a Player created with any speed   *)
(* of 1..200 computes the number of strokes of a frame for a deltaTime.    *)
(***************************************************************************)
Speeds == 1..200
FrameTimes == {0, 1, 16, 17, 400, 800}

InitSpeed ==
    /\ RecorderCreated
    /\ \E speed \in Speeds : player = [NewPlayer(FALSE) EXCEPT !.speed = speed]
    /\ pending = {}
    /\ surface = EmptySurface
    /\ pLast = PlayerOp("createPlayer", World(NewPlayer(FALSE), {}, EmptySurface))
    /\ strokesToDraw = NoStrokesToDraw
    /\ RestIdle

CalculateStrokesPerFrame(deltaTime) ==
    /\ strokesToDraw' = StrokesToDraw(player.speed, deltaTime,
                                      calculateStrokesPerFrame(player.speed, deltaTime))
    /\ UNCHANGED <<recVars, parseVars, player, pending, surface, pLast, otherVars>>

NextSpeed == \E deltaTime \in FrameTimes : CalculateStrokesPerFrame(deltaTime)

SpecSpeed == InitSpeed /\ [][NextSpeed]_vars

(***************************************************************************)
(* The handlers of the userscript: the ModulesManager, the Timelapse and   *)
(* the Painter module.                                                     *)
(***************************************************************************)
IsEnabled(m, name) == IF name = "Timelapse" THEN m.isEnabled ELSE m.painter.isEnabled

\* register(moduleName, moduleObject) with a module object of the two modules
register(m, name) == [m EXCEPT !.modules = Append(@, name)]

\* _setupImageHandlers(): three listeners on every result image
setupImageHandlers(m) ==
    [m EXCEPT !.eventListeners = @ + ListenersPerImage * m.dom.images]

\* _onAlbumPhaseStart(): waitForElement resolves at once when a result image
\* is there, and otherwise leaves an observer waiting for one; the rest of
\* the function runs when it has resolved.
onAlbumPhaseStart(m) ==
    IF m.dom.images > 0 THEN setupImageHandlers(m)
    ELSE [m EXCEPT !.waiting = @ + 1]

\* The waiting observers of waitForElement after a change of the document
waitForElement(m) ==
    IF m.dom.images > 0
    THEN [m EXCEPT !.waiting = 0,
                   !.eventListeners = @ + m.waiting * ListenersPerImage * m.dom.images]
    ELSE m

\* _handlePhaseChange(newPhase, oldPhase) in the module; stopped is what
\* recorder.stopRecording() returns, which _onGamePhaseEnd names session
handlePhaseChange(m, newPhase, oldPhase, stopped) ==
    Let(IF oldPhase = "game" /\ m.recorder THEN [m EXCEPT !.session = stopped] ELSE m,
        LAMBDA a :
            [(IF newPhase = "album" THEN onAlbumPhaseStart(a) ELSE a)
                EXCEPT !.currentPhase = newPhase])
Stopped == StopRecordingOn(isRecording, currentSession, strokeBuffer, now).result

\* What a call of _handlePhaseChange(newPhase, oldPhase) does to the Recorder
PhaseChangeStep(newPhase, oldPhase) ==
    IF oldPhase = "game" THEN StopRecordingStep(FALSE)
    ELSE IF newPhase = "game" THEN StartRecordingStep
    ELSE UNCHANGED <<recVars, parseVars>>

\* init() of the Timelapse module
timelapseInit(m) ==
    IF m.isEnabled THEN m
    ELSE Let([m EXCEPT !.recorder = TRUE, !.player = TRUE, !.ui = TRUE,
                       !.phaseObserver = TRUE],
             LAMBDA a :
                 [(IF a.dom.phase # "unknown"
                   THEN handlePhaseChange(a, a.dom.phase, "null", NullSession)
                   ELSE a)
                     EXCEPT !.isEnabled = TRUE, !.destroyed = FALSE])
\* what it does to the Recorder and to the Player it creates
TimelapseInitStep ==
    /\ IF app.dom.phase = "game"
       THEN \E p \in {PatchWebSocket(originalSend, wsSend)} :
               StartRecordingFrom(p.originalSend, p.wsSend)
       ELSE RecorderInitStep
    /\ player' = NewPlayer(FALSE)
    /\ surface' = EmptySurface
    /\ UNCHANGED <<pending, pLast, strokesToDraw>>

\* destroy() of the Timelapse module: the observer of waitForElement is not
\* among the things it stops
timelapseDestroy(m) ==
    IF ~m.isEnabled THEN m
    ELSE [m EXCEPT !.phaseObserver = FALSE, !.eventListeners = 0,
                   !.recorder = FALSE, !.player = FALSE, !.ui = FALSE,
                   !.currentPhase = "null", !.isEnabled = FALSE,
                   !.destroyed = TRUE]
TimelapseDestroyStep ==
    /\ DestroyStep
    /\ \E w \in {destroy(TheWorld, 0)} :
          /\ player' = w.p
          /\ pending' = w.pending
          /\ surface' = w.surface
          /\ pLast' = PlayerOp("destroy", w)
    /\ UNCHANGED strokesToDraw

\* init() and destroy() of the Painter module: init waits for the canvas
painterInit(m) ==
    IF m.painter.isEnabled THEN m
    ELSE IF m.dom.canvas THEN [m EXCEPT !.painter.isEnabled = TRUE]
    ELSE [m EXCEPT !.painter.initialising = TRUE]
painterCanvasFound(m) ==
    IF m.painter.initialising /\ m.dom.canvas
    THEN [m EXCEPT !.painter = [isEnabled |-> TRUE, initialising |-> FALSE]]
    ELSE m
painterDestroy(m) ==
    IF ~m.painter.isEnabled THEN m ELSE [m EXCEPT !.painter.isEnabled = FALSE]

\* initAll(): a module whose isEnabled is false is skipped, the others have
\* their init() called
Skipped(m, name) == ~IsEnabled(m, name)
InitAllInits(m, name) == ~Skipped(m, name) /\ ~IsEnabled(m, name)
initOf(m, name) == IF name = "Timelapse" THEN timelapseInit(m) ELSE painterInit(m)
initModule(m, name) == IF Skipped(m, name) THEN m ELSE initOf(m, name)
initAll(m) ==
    IF Len(m.modules) = 2
    THEN initModule(initModule(m, m.modules[1]), m.modules[2])
    ELSE m

Handled(m, handler, threw) == [m EXCEPT !.last = handler, !.threw = threw]

(***************************************************************************)
(* The IO module on its own: a session the Recorder can return is exported *)
(* and the file is imported again.  The strokes are those the Recorder     *)
(* makes of the frames IOFrames at the times 0..MaxNow.                    *)
(***************************************************************************)
MaxIOStrokes == 2
HugeFrame ==
    <<"4", "2", "[", QUOTE, "draw", QUOTE, ",", "{", QUOTE, "x", QUOTE, ":", HUGE, "}", "]">>
SegmentFrame ==
    <<"4", "2">> \o Stringify(EventArray("draw",
        JObj(<<Member(<<"x">>, JNum(7)), Member(<<"prevX">>, JNum(7)),
               Member(<<"c">>, JStr(<<"#ff0000">>))>>)))
IOFrames == {DrawFrame, ClearFrame, SegmentFrame, HugeFrame}
RecordedPoints ==
    {ConvertToStrokePoint(parse(f, FALSE, t)) : f \in IOFrames, t \in 0..MaxNow}
IOSessions ==
    {Session(1, 0, MaxNow, strokes) :
       strokes \in UNION {[1..len -> RecordedPoints] : len \in 0..MaxIOStrokes}}

InitIO ==
    /\ RecorderCreated
    /\ PlayerCreated(FALSE)
    /\ app = NoApp
    /\ fib = NoFib
    /\ pair = NewPair
    /\ \E session \in IOSessions : io = IO("session", session, <<>>, Rejected)

ExportRecording ==
    /\ io.stage = "session"
    /\ \E e \in {exportRecording(io.session)} :
         /\ e.ok
         /\ io' = IO("exported", io.session, e.text, Rejected)
    /\ UNCHANGED <<recVars, parseVars, playerVars, app, fib, pair>>

ImportRecording ==
    /\ io.stage = "exported"
    /\ \E r \in {importRecording(io.file, now)} :
         io' = IO("imported", io.session, io.file, r)
    /\ UNCHANGED <<recVars, parseVars, playerVars, app, fib, pair>>

NextIO == ExportRecording \/ ImportRecording

SpecIO == InitIO /\ [][NextIO]_vars

(***************************************************************************)
(* The userscript in a page: main() runs once, the page changes, the game  *)
(* sends frames of strokes, the user toggles modules in the settings and   *)
(* middle-clicks result images.                                            *)
(***************************************************************************)
InitApp ==
    /\ RecorderCreated
    /\ PlayerCreated(FALSE)
    /\ IOIdle
    /\ fib = NoFib
    /\ pair = NewPair
    /\ \E strict \in BOOLEAN : app = NewApp(strict)

\* main(): registers the Painter and the Timelapse module, then initAll()
Main ==
    /\ ~app.started
    /\ app' = Handled([initAll(register(register(app, ModuleNames[1]), ModuleNames[2]))
                          EXCEPT !.started = TRUE], "main", FALSE)
    /\ IF InitAllInits(app, "Timelapse")
       THEN TimelapseInitStep
       ELSE UNCHANGED <<recVars, parseVars, playerVars>>
    /\ UNCHANGED <<io, fib, pair>>

\* enableModule(moduleName), from the settings
EnableModule(name) ==
    /\ app.started
    /\ IF IsEnabled(app, name)
       THEN /\ app' = Handled(app, "enableModule", FALSE)
            /\ UNCHANGED <<recVars, parseVars, playerVars>>
       ELSE IF app.strict
       THEN /\ app' = Handled(app, "enableModule", TRUE)
            /\ UNCHANGED <<recVars, parseVars, playerVars>>
       ELSE /\ app' = Handled(initOf(app, name), "enableModule", FALSE)
            /\ app'.eventListeners <= MaxListeners
            /\ app'.waiting <= MaxWaiting
            /\ IF name = "Timelapse"
               THEN TimelapseInitStep
               ELSE UNCHANGED <<recVars, parseVars, playerVars>>
    /\ UNCHANGED <<io, fib, pair>>

\* disableModule(moduleName), from the settings
DisableModule(name) ==
    /\ app.started
    /\ IF ~IsEnabled(app, name)
       THEN /\ app' = Handled(app, "disableModule", FALSE)
            /\ UNCHANGED <<recVars, parseVars, playerVars>>
       ELSE IF app.strict
       THEN /\ app' = Handled(app, "disableModule", TRUE)
            /\ UNCHANGED <<recVars, parseVars, playerVars>>
       ELSE /\ app' = Handled(IF name = "Timelapse" THEN timelapseDestroy(app)
                                                   ELSE painterDestroy(app),
                              "disableModule", FALSE)
            /\ IF name = "Timelapse"
               THEN TimelapseDestroyStep
               ELSE UNCHANGED <<recVars, parseVars, playerVars>>
    /\ UNCHANGED <<io, fib, pair>>

\* destroyAll(): destroy() of every module
DestroyAll ==
    /\ app.started
    /\ app' = Handled(timelapseDestroy(painterDestroy(app)), "destroyAll", FALSE)
    /\ IF app.isEnabled
       THEN TimelapseDestroyStep
       ELSE UNCHANGED <<recVars, parseVars, playerVars>>
    /\ UNCHANGED <<io, fib, pair>>

\* The document changes: the phase observer of the module runs, then the
\* observers of waitForElement that were waiting, then what they resolved.
Mutation(dom) ==
    /\ dom # app.dom
    /\ \E changes \in {/\ app.phaseObserver
                       /\ dom.phase # app.currentPhase
                       /\ dom.phase # "unknown"} :
         /\ \E m \in {[app EXCEPT !.dom = dom]} :
              app' = Handled(
                       painterCanvasFound(
                         [(IF changes
                           THEN handlePhaseChange(m, dom.phase, m.currentPhase, Stopped)
                           ELSE m)
                             EXCEPT !.waiting = @ - (m.waiting - waitForElement(m).waiting),
                                    !.eventListeners = @ + waitForElement(m).eventListeners
                                                         - m.eventListeners]
                         ),
                       "mutation", FALSE)
         /\ IF changes
            THEN PhaseChangeStep(dom.phase, app.currentPhase)
            ELSE UNCHANGED <<recVars, parseVars>>
    /\ app'.eventListeners <= MaxListeners
    /\ app'.waiting <= MaxWaiting
    /\ UNCHANGED <<playerVars, io, fib, pair>>

\* A middle click on a result image that has the module's mousedown
\* listener: _handleImageMMB
ImageMMB ==
    /\ app.eventListeners > 0
    /\ \E lastSession \in {IF app.recorder THEN getCurrentSession ELSE NullSession} :
         IF lastSession = NullSession \/ Len(lastSession.strokes) = 0
         THEN /\ app' = Handled(app, "mmb", FALSE)
              /\ UNCHANGED playerVars
         ELSE /\ app' = Handled([app EXCEPT !.player = TRUE, !.ui = TRUE,
                                            !.eventListeners = @ + 1], "mmb", FALSE)
              /\ app'.eventListeners <= MaxListeners
              /\ \E w \in {play(loadSession(TheWorld, lastSession), 0)} :
                    /\ player' = w.p
                    /\ pending' = w.pending
                    /\ surface' = w.surface
                    /\ pLast' = PlayerOp("play", w)
              /\ UNCHANGED strokesToDraw
    /\ UNCHANGED <<recVars, parseVars, io, fib, pair>>

NextApp ==
    \/ Main
    \/ \E name \in {"Painter", "Timelapse"} : EnableModule(name)
    \/ \E name \in {"Painter", "Timelapse"} : DisableModule(name)
    \/ DestroyAll
    \/ \E dom \in Doms : Mutation(dom)
    \/ SendDraw
    \/ ImageMMB

SpecApp == InitApp /\ [][NextApp]_vars

(***************************************************************************)
(* ReactFiber: findComponent(fiber, predicate) on the fiber trees of up to *)
(* MaxFibers fibers, from every fiber of the tree, with every predicate.   *)
(* The engine's call stack holds MaxCallStack calls of findComponent, more *)
(* than a search that enters no fiber twice can nest; a call beyond it     *)
(* throws a RangeError, which nothing in findComponent catches.            *)
(***************************************************************************)
MaxFibers == 3
MaxCallStack == MaxFibers + 1
RangeError == -1
First(S) == IF S = {} THEN 0 ELSE CHOOSE x \in S : \A y \in S : x <= y

\* The fibers of a tree in which parent[f] is the parent of fiber f (0 for
\* the root): child is the first child, sibling the next child of the same
\* parent, return the parent.
Fiber(child, sibling, return) == [child |-> child, sibling |-> sibling, return |-> return]
FiberTree(parent) ==
    [f \in 1..Len(parent) |->
       Fiber(First({g \in 1..Len(parent) : parent[g] = f}),
             First({g \in 1..Len(parent) : g > f /\ parent[g] = parent[f] /\ parent[f] # 0}),
             parent[f])]
Parents(n) == {parent \in [1..n -> 0..n] :
                 /\ parent[1] = 0
                 /\ \A f \in 2..n : parent[f] \in 1..(f - 1)}
FiberTrees == {FiberTree(parent) : parent \in UNION {Parents(n) : n \in 1..MaxFibers}}

RECURSIVE findComponent(_, _, _, _)
findComponent(tree, fiber, matching, depth) ==
    IF fiber = 0 THEN 0
    ELSE IF depth > MaxCallStack THEN RangeError
    ELSE IF fiber \in matching THEN fiber
    ELSE Let(IF tree[fiber].child # 0
             THEN findComponent(tree, tree[fiber].child, matching, depth + 1) ELSE 0,
         LAMBDA inChild :
           IF inChild # 0 THEN inChild
           ELSE Let(IF tree[fiber].sibling # 0
                    THEN findComponent(tree, tree[fiber].sibling, matching, depth + 1)
                    ELSE 0,
                LAMBDA inSibling :
                  IF inSibling # 0 THEN inSibling
                  ELSE IF tree[fiber].return # 0
                  THEN findComponent(tree, tree[fiber].return, matching, depth + 1)
                  ELSE 0))

InitFiber ==
    /\ RecorderCreated
    /\ PlayerCreated(FALSE)
    /\ IOIdle
    /\ app = NoApp
    /\ pair = NewPair
    /\ \E tree \in FiberTrees :
         \E fiber \in 1..Len(tree), matching \in SUBSET (1..Len(tree)) :
            fib = Fib("call", tree, fiber, matching, 0)

FindComponent ==
    /\ fib.stage = "call"
    /\ fib' = [fib EXCEPT !.stage = "done",
                          !.result = findComponent(fib.tree, fib.fiber, fib.matching, 1)]
    /\ UNCHANGED <<recVars, parseVars, playerVars, io, app, pair>>

NextFiber == FindComponent

SpecFiber == InitFiber /\ [][NextFiber]_vars

(***************************************************************************)
(* Two Recorders in one page.  Each keeps its own originalSend and its own *)
(* isRecording; both patch and restore the one WebSocket.prototype.send.   *)
(***************************************************************************)
\* _patchWebSocket() and _unpatchWebSocket() of Recorder r: its
\* _interceptedSend is named r
PatchedBy(r, p) ==
    [p EXCEPT !.send = IF PatchWebSocket(p.originalSend[r], p.send).wsSend = "intercepted"
                       THEN r ELSE @,
              !.originalSend[r] = PatchWebSocket(p.originalSend[r], p.send).originalSend]
UnpatchedBy(r, p) ==
    [p EXCEPT !.send = UnpatchWebSocket(p.originalSend[r], p.send).wsSend,
              !.originalSend[r] = UnpatchWebSocket(p.originalSend[r], p.send).originalSend]

\* A call of the function fn as send: how often the frame reaches the native
\* send, or TypeError when the call throws: _interceptedSend calls
\* originalSend first, which is null after _unpatchWebSocket.  No chain of
\* originalSend is longer than the number of Recorders.
TypeError == -1
RECURSIVE Forwarded(_, _, _)
Forwarded(fn, originals, depth) ==
    IF fn = "native" THEN 1
    ELSE IF fn = "null" \/ depth = 0 THEN TypeError
    ELSE Forwarded(originals[fn], originals, depth - 1)
\* The Recorders whose _interceptedSend the call runs
RECURSIVE Interceptors(_, _, _)
Interceptors(fn, originals, depth) ==
    IF fn \notin Recorders \/ depth = 0 THEN {}
    ELSE {fn} \cup Interceptors(originals[fn], originals, depth - 1)
Links == Cardinality(Recorders) + 1

Did(p, op) == [p EXCEPT !.last = op, !.reached = 0, !.threw = FALSE, !.observed = {}]

InitPair ==
    /\ RecorderCreated
    /\ PlayerCreated(FALSE)
    /\ IOIdle
    /\ app = NoApp
    /\ fib = NoFib
    /\ pair = NewPair

\* init() of Recorder r
PairInit(r) ==
    /\ pair' = [Did(PatchedBy(r, pair), "init")
                   EXCEPT !.everInit = @ \cup {r}, !.live = @ \cup {r}]
    /\ UNCHANGED <<recVars, parseVars, playerVars, io, app, fib>>

\* startRecording() of Recorder r
PairStartRecording(r) ==
    /\ pair' = [Did(PatchedBy(r, pair), "startRecording")
                   EXCEPT !.isRecording[r] = TRUE, !.everInit = @ \cup {r},
                          !.live = @ \cup {r}]
    /\ UNCHANGED <<recVars, parseVars, playerVars, io, app, fib>>

\* stopRecording() of Recorder r
PairStopRecording(r) ==
    /\ pair' = [Did(pair, "stopRecording") EXCEPT !.isRecording[r] = FALSE]
    /\ UNCHANGED <<recVars, parseVars, playerVars, io, app, fib>>

\* destroy() of Recorder r
PairDestroy(r) ==
    /\ pair' = [Did(UnpatchedBy(r, pair), "destroy")
                   EXCEPT !.isRecording[r] = FALSE, !.live = @ \ {r}]
    /\ UNCHANGED <<recVars, parseVars, playerVars, io, app, fib>>

\* The host calls socket.send(data) with the frame of a stroke
PairSend ==
    /\ \E n \in {Forwarded(pair.send, pair.originalSend, Links)} :
         pair' = [pair EXCEPT
                    !.last = "send",
                    !.reached = IF n = TypeError THEN 0 ELSE n,
                    !.threw = (n = TypeError),
                    !.observed =
                       IF n = TypeError THEN {}
                       ELSE {r \in Interceptors(pair.send, pair.originalSend, Links) :
                               pair.isRecording[r]}]
    /\ UNCHANGED <<recVars, parseVars, playerVars, io, app, fib>>

NextPair ==
    \/ \E r \in Recorders : PairInit(r)
    \/ \E r \in Recorders : PairStartRecording(r)
    \/ \E r \in Recorders : PairStopRecording(r)
    \/ \E r \in Recorders : PairDestroy(r)
    \/ PairSend

SpecPair == InitPair /\ [][NextPair]_vars

(***************************************************************************)
(* One playback from the first stroke, without looping: a Player of any    *)
(* speed has a session loaded and play() called, and from then on only the *)
(* browser acts, running each requested frame after some deltaTime.  The   *)
(* browser runs every frame that stays requested.                          *)
(***************************************************************************)
InitPlayback ==
    /\ RecorderCreated
    /\ RestIdle
    /\ \E speed \in Speeds : player = [NewPlayer(FALSE) EXCEPT !.speed = speed]
    /\ pending = {}
    /\ surface = EmptySurface
    /\ pLast = PlayerOp("createPlayer", World(NewPlayer(FALSE), {}, EmptySurface))
    /\ strokesToDraw = NoStrokesToDraw

Observe == pLast.op = "createPlayer" /\ SetOnStateChange("returns")
LoadOnce(session) == player.currentSession = NullSession /\ LoadSession(session)
PlayOnce == pLast.op = "loadSession" /\ Play
AnyFrameTick == \E deltaTime \in FrameTimes : FrameTick(deltaTime)

NextPlayback ==
    \/ Observe
    \/ \E session \in {ShortSession, LongSession} : LoadOnce(session)
    \/ PlayOnce
    \/ AnyFrameTick

SpecPlayback == InitPlayback /\ [][NextPlayback]_vars /\ WF_vars(AnyFrameTick)

(***************************************************************************)
(* Properties of the Recorder (checked under Spec).                        *)
(***************************************************************************)
InTrace(step) == \E i \in 1..Len(lastOp.trace) : lastOp.trace[i] = step

\* C1: for every call of send, with the Recorder idle or recording and for
\* string and binary payloads alike, the original send receives the payload
\* exactly once and unchanged.
C1_ForwardedExactlyOnce ==
    lastOp.op = "send" => lastOp.forwarded = <<lastOp.data>>

C1_Witness ==
    /\ lastOp.op = "send"
    /\ wsSend = "intercepted"
    /\ isRecording
    /\ lastOp.data = BinaryPayload
    /\ lastOp.forwarded = <<BinaryPayload>>

\* C2: when the host calls startRecording(), sends frames and calls
\* stopRecording(), the returned session's strokes hold one point per frame
\* that decodes to a drawing event, in the order the frames were sent, and
\* nothing for the other frames.
IsDrawingFrame(p) == p.isString /\ parse(p.toks, FALSE, 0).kind = "event"
DrawingFramesSent == SelectSeq(sent, IsDrawingFrame)
C2_StrokesMatchDrawingFrames ==
    (lastOp.op = "stopRecording" /\ hostPhase = "stopped") =>
        LET strokes == lastOp.result.strokes IN
        /\ lastOp.result # NullSession
        /\ Len(strokes) = Len(DrawingFramesSent)
        /\ \A i \in 1..Len(strokes) :
             strokes[i] = ConvertToStrokePoint(
                             parse(DrawingFramesSent[i].toks, FALSE, strokes[i].time))
        /\ \A i \in 1..(Len(strokes) - 1) : strokes[i].time <= strokes[i + 1].time

C2_Witness ==
    /\ lastOp.op = "stopRecording"
    /\ hostPhase = "stopped"
    /\ Len(sent) = 3
    /\ sent[1] = Payload(TRUE, ClearFrame)
    /\ sent[2] = BinaryPayload
    /\ sent[3] = DrawPayload
    /\ Len(lastOp.result.strokes) = 2
    /\ lastOp.result.strokes[1].action = JStr(<<"clear">>)
    /\ lastOp.result.strokes[2].x = JNum(7)

\* C3: capture is gated by the Recording state: a frame sent while the host
\* has no recording running adds no point and triggers no data callback,
\* and whenever isActive() is false getStrokeCount() is 0.
C3_CaptureGatedByRecording ==
    /\ ~isActive => getStrokeCount = 0
    /\ (lastOp.op = "send" /\ hostPhase # "started") =>
          /\ lastOp.cbCalls = <<>>
          /\ ~InTrace("push")
          /\ getStrokeCount = 0

C3_Witness ==
    /\ lastOp.op = "send"
    /\ wsSend = "intercepted"
    /\ hostPhase = "stopped"
    /\ onDataCallback = "returns"
    /\ lastOp.data = DrawPayload
    /\ lastOp.cbCalls = <<>>
    /\ getStrokeCount = 0

\* C10: no exception raised while decoding a frame, converting it or running
\* the data callback leaves _interceptedSend, and the frame was forwarded.
C10_NoExceptionReachesHost ==
    (lastOp.op = "send" /\ wsSend = "intercepted") =>
        /\ lastOp.threw = FALSE
        /\ Len(lastOp.forwarded) = 1

C10_Witness ==
    /\ lastOp.op = "send"
    /\ lastOp.cbCalls # <<>>
    /\ lastOp.cbCalls[1].cb = "throws"
    /\ lastOp.threw = FALSE
    /\ lastOp.forwarded = <<lastOp.data>>

(***************************************************************************)
(* Properties of the parser (checked under SpecParse).                     *)
(***************************************************************************)
Parsed == pOut.stage # "input"
Whitelist == {"draw", "clear", "undo", "line", "stroke", "path"}
IsWhitelistedName(v) == v.k = "str" /\ Len(v.s) = 1 /\ v.s[1] \in Whitelist

\* The input is an event frame "42", with or without namespace, carrying
\* [name, argument object] with a whitelisted name.
WellFormedEvent ==
    /\ pIn.head = <<"4", "2">>
    /\ pIn.ns \in {<<>>, <<"/", "game", ",">>}
    /\ pIn.ack = <<>>
    /\ pIn.val.k = "arr"
    /\ Len(pIn.val.xs) = 2
    /\ IsWhitelistedName(pIn.val.xs[1])
    /\ pIn.val.xs[2].k = "obj"
Arg == pIn.val.xs[2]

\* The positions of the members of obj whose key is one of keys.
Present(obj, keys) == {i \in 1..Len(obj.o) : \E key \in keys : obj.o[i].key = <<key>>}
Given(obj, keys, default) ==
    IF Present(obj, keys) = {} THEN default
    ELSE obj.o[CHOOSE i \in Present(obj, keys) : TRUE].val
AliasGroups == {{"x"}, {"y"}, {"prevX", "px"}, {"prevY", "py"},
                {"size", "width", "thickness"}, {"color", "c"},
                {"opacity", "alpha", "a"}}
OneAliasPerField(obj) == \A g \in AliasGroups : Cardinality(Present(obj, g)) <= 1

\* C4: the StrokePoint built for a draw/line/stroke/path event carries the
\* decoder's normalized x, y, prevX, prevY, size, color and opacity, also
\* when a value is zero.
C4_PointCarriesNormalizedValues ==
    (pOut.stage = "converted" /\ pOut.event.type.s \notin {<<"clear">>, <<"undo">>}) =>
        LET data == pOut.event.data
            point == pOut.point
        IN /\ point.x = data.x
           /\ point.y = data.y
           /\ point.prevX = data.prevX
           /\ point.prevY = data.prevY
           /\ point.size = data.size
           /\ point.color = data.color
           /\ point.opacity = data.opacity

\* C5: parse returns null for a frame whose outer tag is a digit other than
\* 4, whose message type is not 2, whose payload is not a non-empty array,
\* or whose first array element is not a whitelisted name.
OuterTagNotMessage ==
    FrameOf(pIn) # <<>> /\ Head(FrameOf(pIn)) \in DigitChars \ {"4"}
MessageTypeNotEvent ==
    /\ Len(FrameOf(pIn)) >= 2
    /\ FrameOf(pIn)[1] = "4"
    /\ FrameOf(pIn)[2] \in DigitChars \ {"2"}
PayloadNotNonEmptyArray == ~(pIn.val.k = "arr" /\ Len(pIn.val.xs) > 0)
FirstNotWhitelisted ==
    pIn.val.k = "arr" /\ Len(pIn.val.xs) > 0 /\ ~IsWhitelistedName(pIn.val.xs[1])
C5_NullForNonDrawingFrames ==
    (/\ Parsed
     /\ \/ OuterTagNotMessage
        \/ MessageTypeNotEvent
        \/ PayloadNotNonEmptyArray
        \/ FirstNotWhitelisted) => pOut.event.kind = "null"

C5_Witness ==
    /\ Parsed
    /\ pIn.head = <<"2">>
    /\ pIn.ns = <<>>
    /\ pIn.ack = <<>>
    /\ pIn.val.k = "arr"
    /\ Len(pIn.val.xs) = 2
    /\ IsWhitelistedName(pIn.val.xs[1])
    /\ pOut.event.kind = "null"

\* C6: for a well-formed event frame whose argument object has at most one
\* alias per field, the normalized data has the aliased inputs, the
\* defaults for absent fields, and 100 times the given opacity.
C6_AliasedFieldsAndDefaults ==
    (Parsed /\ WellFormedEvent /\ OneAliasPerField(Arg)) =>
        LET data == pOut.event.data
            opacity == Given(Arg, {"opacity", "alpha", "a"}, JNum(1))
        IN /\ pOut.event.kind = "event"
           /\ pOut.event.type = pIn.val.xs[1]
           /\ data.x = Given(Arg, {"x"}, JNum(0))
           /\ data.y = Given(Arg, {"y"}, JNum(0))
           /\ data.prevX = Given(Arg, {"prevX", "px"}, JNull)
           /\ data.prevY = Given(Arg, {"prevY", "py"}, JNull)
           /\ data.size = Given(Arg, {"size", "width", "thickness"}, JNum(5))
           /\ data.color = Given(Arg, {"color", "c"}, JStr(<<"#000000">>))
           /\ data.opacity = JNum(100 * opacity.n)

C6_Witness ==
    /\ Parsed
    /\ WellFormedEvent
    /\ OneAliasPerField(Arg)
    /\ Present(Arg, {"thickness"}) # {}
    /\ Present(Arg, {"a"}) # {}
    /\ pOut.event.data.size = JNum(7)
    /\ pOut.event.data.opacity = JNum(700)
    /\ pOut.event.data.color = JStr(<<"#000000">>)

\* C7: an event frame with an acknowledgement id (digits followed by a
\* comma) in front of a whitelisted drawing payload decodes to the same
\* event as the frame without the id.
C7_AckIdIsConsumed ==
    (/\ Parsed
     /\ pIn.head = <<"4", "2">>
     /\ pIn.ack = <<"1", "2", ",">>
     /\ pIn.val.k = "arr"
     /\ Len(pIn.val.xs) > 0
     /\ IsWhitelistedName(pIn.val.xs[1])) =>
        pOut.event = parse(pIn.head \o pIn.ns \o pIn.body, debugMode, now)

\* C8 as stated: with several of opacity, alpha and a present, the
\* normalized opacity is 100 times the first one present in that order.
OpacityKeys == <<"opacity", "alpha", "a">>
PresentOpacityKeys == {i \in 1..3 : Present(Arg, {OpacityKeys[i]}) # {}}
FirstOpacity ==
    Given(Arg, {OpacityKeys[CHOOSE i \in PresentOpacityKeys :
                               \A j \in PresentOpacityKeys : i <= j]}, JNull)
LastOpacity ==
    Given(Arg, {OpacityKeys[CHOOSE i \in PresentOpacityKeys :
                               \A j \in PresentOpacityKeys : i >= j]}, JNull)
C8_FirstOpacityAliasWins ==
    (Parsed /\ WellFormedEvent /\ Cardinality(PresentOpacityKeys) > 1) =>
        pOut.event.data.opacity = JNum(100 * FirstOpacity.n)

\* C8 amended: with several of opacity, alpha and a present, the normalized
\* opacity is 100 times the last one present in the order opacity, alpha, a.
C8_LastOpacityAliasWins ==
    (Parsed /\ WellFormedEvent /\ Cardinality(PresentOpacityKeys) > 1) =>
        /\ pOut.event.kind = "event"
        /\ pOut.event.data.opacity = JNum(100 * LastOpacity.n)

C8_Witness ==
    /\ Parsed
    /\ WellFormedEvent
    /\ Given(Arg, {"opacity"}, JNull) = JNum(7)
    /\ Given(Arg, {"a"}, JNull) = JNum(0)
    /\ pOut.event.data.opacity = JNum(0)

\* C9: for every input string parse returns a DrawingEvent or null and
\* never throws, with debug mode on or off.
C9_ParseNeverThrows ==
    Parsed => pOut.event.kind \in {"event", "null"}

C9_Witness ==
    /\ Parsed
    /\ debugMode
    /\ pIn.head = <<"4", "2">>
    /\ pIn.ns = <<>>
    /\ pIn.ack = <<>>
    /\ pIn.val = JArr(<<JStr(<<"draw">>)>>)
    /\ pOut.event.kind = "event"
    /\ pOut.event.data.size = JNum(5)


(***************************************************************************)
(* Lifecycle properties of the Recorder (checked under Spec).              *)
(***************************************************************************)
TraceIndex(step) == CHOOSE i \in 1..Len(lastOp.trace) : lastOp.trace[i] = step

\* C11: after destroy(), from Idle or from Recording, isActive() is false,
\* the buffer is empty, the callback is cleared and WebSocket.prototype.send
\* is the function that was there before the patch; a later send no longer
\* passes through the Recorder.
C11_DestroyRestoresSend ==
    /\ lastOp.op = "destroy" =>
         /\ ~isActive
         /\ getStrokeCount = 0
         /\ getCurrentSession = NullSession
         /\ onDataCallback = "none"
         /\ wsSend = "native"
         /\ originalSend = "null"
    /\ (lastOp.op = "send" /\ wsSend = "native") =>
         /\ lastOp.trace = <<"forward">>
         /\ lastOp.forwarded = <<lastOp.data>>
         /\ lastOp.cbCalls = <<>>
         /\ getStrokeCount = 0

C11_Witness ==
    /\ lastOp.op = "destroy"
    /\ Len(sent) > 1
    /\ wsSend = "native"
    /\ ~isActive

\* C12: patching when the patch is installed (init() then startRecording(),
\* or repeated cycles) does not wrap send again: the saved original stays
\* the native send and each send is forwarded once; unpatching when nothing
\* is installed changes nothing and raises nothing.
C12_PatchInstalledOnce ==
    /\ originalSend \in {"null", "native"}
    /\ (wsSend = "intercepted") <=> (originalSend = "native")
    /\ InTrace("warn:patched") => (wsSend = "intercepted" /\ originalSend = "native")
    /\ InTrace("warn:unpatched") =>
         (wsSend = "native" /\ originalSend = "null" /\ ~lastOp.threw)
    /\ lastOp.op = "send" => (Len(lastOp.forwarded) = 1 /\ ~lastOp.threw)

C12_Witness ==
    /\ lastOp.op = "startRecording"
    /\ InTrace("warn:patched")
    /\ idSeq = 2
    /\ originalSend = "native"

\* C13: startRecording() while Recording leaves the Recorder recording a
\* new empty session: getStrokeCount() is 0 right after it, and the points
\* captured before it are not in the session the next stopRecording()
\* returns.
C13_RestartBeginsEmptySession ==
    /\ lastOp.op = "startRecording" =>
         /\ isActive
         /\ getStrokeCount = 0
         /\ getCurrentSession = lastOp.result
         /\ getCurrentSession.id = idSeq
         /\ getCurrentSession.strokes = <<>>
    /\ (lastOp.op = "stopRecording" /\ hostPhase = "stopped" /\ restarted) =>
         /\ lastOp.result.id = idSeq
         /\ Len(lastOp.result.strokes) = Len(DrawingFramesSent)

C13_Witness ==
    /\ lastOp.op = "stopRecording"
    /\ hostPhase = "stopped"
    /\ restarted
    /\ Len(lastOp.result.strokes) = 1

\* C14: stopRecording() while not recording returns null and changes
\* nothing: the Recorder stays idle, the buffer stays empty and the patch
\* stays as it was.
C14_StopWhileIdleChangesNothing ==
    [][(StopRecording /\ ~isActive) =>
         /\ lastOp'.result = NullSession
         /\ strokeBuffer' = <<>>
         /\ UNCHANGED <<isRecording, currentSession, strokeBuffer, wsSend,
                        originalSend, onDataCallback>>]_vars

C14_Witness ==
    /\ lastOp.op = "stopRecording"
    /\ lastOp.result = NullSession
    /\ InTrace("warn:idle")
    /\ wsSend = "intercepted"

\* C16: while Recording, the strokes of getCurrentSession() are the points
\* captured so far: their number equals getStrokeCount() after every
\* observed frame.
C16_LiveSessionShowsCapturedStrokes ==
    isActive => Len(getCurrentSession.strokes) = getStrokeCount

C18_ObservedBeforeForwarded ==
    (lastOp.op = "send" /\ wsSend = "intercepted" /\ isActive /\ lastOp.data.isString) =>
        \A i, j \in 1..Len(lastOp.trace) :
            (lastOp.trace[i] = "forward" /\ lastOp.trace[j] # "forward") => j < i


\* C15: the session stopRecording() returned is not changed by what the
\* Recorder does later: frames sent afterwards, a later startRecording() and
\* stopRecording(), and destroy() leave its strokes, startTime and endTime
\* as they were returned.
C15_ReturnedSessionIsStable ==
    /\ held = returned
    /\ returned # NullSession =>
         (arrays.held # NoArray /\ arrays.held # arrays.buffer
          /\ arrays.held # arrays.session)

C15_Witness ==
    /\ returned # NullSession
    /\ Len(returned.strokes) = 1
    /\ held = returned
    /\ isActive
    /\ getStrokeCount = 2
    /\ idSeq = 2


(***************************************************************************)
(* Properties of the Player.                                               *)
(***************************************************************************)
Playing == player.isPlaying /\ ~player.isPaused
Paused == player.isPlaying /\ player.isPaused
Idle == ~player.isPlaying

\* C19 (checked under SpecReentrant): in every reachable state of the
\* Player at most one animation frame is pending, and one is pending only
\* while the Player is playing, never while it is paused or idle, also when
\* the observers call back into the Player or throw.
C19_OnePendingTickOnlyWhilePlaying ==
    /\ Cardinality(pending) <= 1
    /\ pending # {} => Playing
    /\ pending \subseteq {player.animationFrameId}

C19_Witness ==
    /\ pLast.op = "stop"
    /\ player.onStateChangeCallback = "play"
    /\ Len(pLast.notes) = 2
    /\ Cardinality(pending) = 1
    /\ Playing


\* C20 (checked under SpecPlayer): play() while playing or without a
\* session, pause() while not playing, resume() while not paused, stop()
\* while idle, seek() without a session and loadSession() with no session or
\* one without strokes return false, emit no notification and leave the
\* session, the cursor, the play state, the pending frame and getProgress()
\* as they were.
NoSessionLoaded == player.currentSession = NullSession
InvalidCall ==
    \/ Play /\ (Playing \/ NoSessionLoaded)
    \/ Pause /\ ~Playing
    \/ Resume /\ ~Paused
    \/ PlayerStop /\ Idle
    \/ NoSessionLoaded /\ \E progress \in ProgressInputs : Seek(progress)
    \/ \E session \in {NullSession, EmptySession} : LoadSession(session)
C20_InvalidCallChangesNothing ==
    [][InvalidCall =>
         /\ pLast'.ret = "false"
         /\ ~pLast'.threw
         /\ pLast'.notes = <<>>
         /\ pLast'.drawn = <<>>
         /\ ProgressOf(player') = ProgressOf(player)
         /\ UNCHANGED <<player, pending, surface>>]_vars

C20_Witness ==
    /\ pLast.op = "loadSession"
    /\ pLast.ret = "false"
    /\ Paused
    /\ player.currentSession = LongSession
    /\ player.currentStrokeIndex = 2
    /\ player.onStateChangeCallback = "returns"


\* The strokes an operation rendered: the numbers of the strokes of its dots
\* and segments, in the order it drew them.
RECURSIVE StrokesOf(_)
StrokesOf(drawn) ==
    IF drawn = <<>> THEN <<>>
    ELSE IF Head(drawn).kind = "clear" THEN StrokesOf(Tail(drawn))
    ELSE <<Head(drawn).i>> \o StrokesOf(Tail(drawn))

\* C21 (checked under SpecPlayer): stop() while playing or paused returns
\* true, leaves no frame pending, an empty surface, the cursor at 0 and the
\* Player idle; and a step taken while the Player is idle renders a stroke
\* only if it is a seek(), so nothing is rendered after stop() until play()
\* or seek() is called.
C21_StopResetsAndSilences ==
    [][/\ (PlayerStop /\ ~Idle) =>
            /\ pLast'.ret = "true"
            /\ pending' = {}
            /\ surface' = EmptySurface
            /\ player'.currentStrokeIndex = 0
            /\ ~player'.isPlaying /\ ~player'.isPaused
       /\ (Idle /\ pLast'.op # "seek") => StrokesOf(pLast'.drawn) = <<>>]_vars

C21_Witness ==
    /\ pLast.op = "stop"
    /\ pLast.ret = "true"
    /\ pLast.notes = <<Note("stopped", Ratio(0, MaxStrokes), 0, MaxStrokes)>>
    /\ pLast.drawn # <<>>
    /\ Idle
    /\ player.currentSession = LongSession


\* The strokes a .. b in order.
Range(a, b) == [k \in 1..(b - a + 1) |-> a + k - 1]
Cursor == player.currentStrokeIndex
AtEnd == NoSessionLoaded \/ Cursor >= Len(player.currentSession.strokes)

\* C22 (checked under SpecPlayer): pause() while playing and resume() while
\* paused render nothing and leave the cursor where it was; while the Player
\* is paused no step other than a seek() renders a stroke; and a tick that
\* finds strokes left renders the strokes from the cursor up to the new
\* cursor, each once and in order, so the first tick after resume() begins
\* with the stroke at the cursor pause() left.
C22_PauseResumeKeepsCursor ==
    [][/\ ((Pause /\ Playing) \/ (Resume /\ Paused)) =>
            /\ pLast'.ret = "true"
            /\ player'.currentStrokeIndex = Cursor
            /\ pLast'.drawn = <<>>
            /\ surface' = surface
       /\ (Paused /\ pLast'.op # "seek") => StrokesOf(pLast'.drawn) = <<>>
       /\ (Playing /\ ~AtEnd /\ pLast'.op = "tick") =>
            /\ player'.currentStrokeIndex > Cursor
            /\ StrokesOf(pLast'.drawn) = Range(Cursor + 1, player'.currentStrokeIndex)]_vars

C22_Witness ==
    /\ pLast.op = "resume"
    /\ pLast.ret = "true"
    /\ Playing
    /\ player.currentSession = LongSession
    /\ Cursor = 2
    /\ surface = Surface(<<1, 2>>, FALSE)
    /\ pending # {}


\* C23 (checked under SpecSpeed): the number of strokes of a frame is
\* (speed - 99) * 10 for a speed of 100..200, whatever deltaTime is, and for
\* a speed of 1..99 it is the larger of 1 and the integer part of
\* (1/16) * (speed/50) * deltaTime, that is of speed * deltaTime / 800.
C23_StrokesPerFrameIsTheFormula ==
    strokesToDraw # NoStrokesToDraw =>
        strokesToDraw.strokes =
            IF strokesToDraw.speed >= 100 THEN (strokesToDraw.speed - 99) * 10
            ELSE Max(1, (strokesToDraw.speed * strokesToDraw.deltaTime) \div 800)


\* C24 (checked under SpecPlayer): seek(p) with a session of N strokes
\* loaded returns true, clears the canvas and then draws the first k strokes
\* in order, the first as a dot and each next one as a segment from the one
\* before it, and leaves the cursor at k, where k is the integer part of
\* p * N for p in [0, 1], 0 for p < 0 and N for p > 1; the canvas and the
\* cursor before the call do not matter.
SeekTarget(progress, n) ==
    IF progress.num < 0 THEN 0
    ELSE IF progress.num > progress.den THEN n
    ELSE (progress.num * n) \div progress.den
SeekDrawing(session, k) ==
    <<Drawn("clear", NoId, 0, 0)>>
    \o [i \in 1..k |-> Drawn(IF i = 1 THEN "dot" ELSE "segment", session.id, i, i - 1)]
C24_SeekRedrawsFromTheStart ==
    [][\A progress \in ProgressInputs :
         (Seek(progress) /\ ~NoSessionLoaded) =>
            LET k == SeekTarget(progress, Len(player.currentSession.strokes))
            IN /\ pLast'.ret = "true"
               /\ pLast'.drawn = SeekDrawing(player.currentSession, k)
               /\ surface' = Surface(Range(1, k), FALSE)
               /\ player'.currentStrokeIndex = k
               /\ player'.currentSession = player.currentSession]_vars

C24_Witness ==
    /\ pLast.op = "seek"
    /\ pLast.ret = "true"
    /\ player.currentSession = LongSession
    /\ Cursor = MaxStrokes \div 2
    /\ Len(pLast.drawn) = 1 + MaxStrokes \div 2
    /\ Paused


\* C25 (checked under SpecPlayer): every stroke a tick renders other than
\* the first stroke of the session is drawn as a segment from the stroke
\* before it in the session, also when that one was rendered by an earlier
\* tick; only the first stroke of the session is drawn as a dot.
C25_TickChainsEveryStroke ==
    pLast.op = "tick" =>
        \A j \in 1..Len(pLast.drawn) :
            LET d == pLast.drawn[j]
            IN d.kind # "clear" =>
                 IF d.i = 1 THEN d.kind = "dot"
                 ELSE d.kind = "segment" /\ d.prev = d.i - 1


\* C26 as stated: with looping off, a tick that has rendered strokes up to
\* the last one of the session leaves the Player idle, no frame pending and
\* 'completed' notified, in that same tick.
Remaining == Len(player.currentSession.strokes) - Cursor
NotedStates(op) == [j \in 1..Len(op.notes) |-> op.notes[j].state]
C26_LastBatchCompletesInSameTick ==
    (/\ pLast.op = "tick"
     /\ ~player.loop
     /\ StrokesOf(pLast.drawn) # <<>>
     /\ AtEnd) =>
        /\ Idle
        /\ pending = {}
        /\ player.onStateChangeCallback # "none" => NotedStates(pLast) = <<"completed">>

\* C26 as amended (checked under SpecPlayer): with looping off, a tick whose
\* number of strokes covers all that remain (at a speed of 100 or more, at
\* least (speed - 99) * 10 strokes; at any speed, at least one) renders all
\* of them, leaves the cursor at the end and the Player playing with the
\* next frame requested, and notifies nothing; the tick after it renders
\* nothing and leaves the Player idle with no frame pending.
BatchCoversRemaining ==
    \/ Remaining = 1
    \/ player.speed >= 100 /\ (player.speed - 99) * 10 >= Remaining
C26_LastBatchThenCompletingTick ==
    [][/\ (/\ pLast'.op = "tick"
           /\ Playing /\ ~player.loop /\ ~AtEnd
           /\ BatchCoversRemaining) =>
                /\ StrokesOf(pLast'.drawn) = Range(Cursor + 1, Cursor + Remaining)
                /\ player'.currentStrokeIndex = Cursor + Remaining
                /\ player'.isPlaying /\ ~player'.isPaused
                /\ Cardinality(pending') = 1
                /\ pLast'.notes = <<>>
       /\ (pLast'.op = "tick" /\ Playing /\ ~player.loop /\ AtEnd) =>
            /\ pLast'.drawn = <<>>
            /\ ~player'.isPlaying
            /\ pending' = {}
            /\ player'.currentStrokeIndex = Cursor]_vars

C26_Witness ==
    /\ pLast.op = "tick"
    /\ ~player.loop
    /\ player.speed = 200
    /\ player.currentSession = LongSession
    /\ StrokesOf(pLast.drawn) = Range(1, MaxStrokes)
    /\ Cursor = MaxStrokes
    /\ Playing
    /\ pending # {}


\* C27 (checked under SpecPlayer): with looping off, a tick that finds the
\* cursor at the end of the strokes leaves the Player idle and no frame
\* pending, and the registered observer gets one notification from it,
\* 'completed', with progress 1 and currentStroke equal to totalStrokes.
C27_CompletingTick ==
    [][(pLast'.op = "tick" /\ Playing /\ ~player.loop /\ AtEnd) =>
         /\ ~player'.isPlaying /\ ~player'.isPaused
         /\ pending' = {}
         /\ ~pLast'.threw
         /\ IF player.onStateChangeCallback = "none" THEN pLast'.notes = <<>>
            ELSE /\ Len(pLast'.notes) = 1
                 /\ pLast'.notes[1].state = "completed"
                 /\ pLast'.notes[1].progress.num = pLast'.notes[1].progress.den
                 /\ pLast'.notes[1].currentStroke = pLast'.notes[1].totalStrokes
                 /\ pLast'.notes[1].totalStrokes = Len(player.currentSession.strokes)]_vars

C27_Witness ==
    /\ pLast.op = "tick"
    /\ Idle
    /\ pending = {}
    /\ ~player.loop
    /\ player.currentSession = LongSession
    /\ pLast.notes = <<Note("completed", Ratio(MaxStrokes, MaxStrokes), MaxStrokes, MaxStrokes)>>


\* C28 (checked under SpecPlayer): with looping enabled, a tick that finds
\* the cursor at the end of the strokes restarts the playback: it leaves
\* the Player playing, a frame requested and the cursor at 0, so that the
\* next tick renders the first stroke again.
C28_LoopRestartsFromTheFirstStroke ==
    [][(pLast'.op = "tick" /\ Playing /\ player.loop /\ AtEnd) =>
         /\ player'.isPlaying /\ ~player'.isPaused
         /\ Cardinality(pending') = 1
         /\ player'.currentStrokeIndex = 0]_vars


\* C29 (checked under SpecPlayer): loadSession(session) with a session of
\* at least one stroke returns true and leaves that session the current one,
\* the cursor at 0 and getProgress() at 0, whatever the session and the
\* cursor were before and whether the Player was idle, playing or paused.
C29_LoadSessionRewinds ==
    [][\A session \in SessionInputs :
         (LoadSession(session) /\ session # NullSession /\ Len(session.strokes) >= 1) =>
            /\ pLast'.ret = "true"
            /\ player'.currentSession = session
            /\ player'.currentStrokeIndex = 0
            /\ ProgressOf(player').num = 0]_vars

C29_Witness ==
    /\ pLast.op = "loadSession"
    /\ pLast.ret = "true"
    /\ player.currentSession = ShortSession
    /\ Cursor = 0
    /\ surface = Surface(<<1, 2>>, FALSE)
    /\ Paused


\* C30 (checked under SpecObserved): a play(), resume(), pause(), stop() or
\* seek() that succeeds, and a tick that completes the playback with looping
\* off, each notify the observer registered at that time once and nobody
\* else, with the state playing, playing, paused, stopped, seeked and
\* completed and with the progress, cursor and number of strokes the Player
\* has after the call; without an observer nothing is notified; an observer
\* that setOnStateChange has replaced is not notified again.
Emitted(state) ==
    IF player.onStateChangeCallback = "none"
    THEN pLast'.notes = <<>> /\ pLast'.notified = <<>>
    ELSE /\ pLast'.notified = <<player.onStateChangeCallback>>
         /\ Len(pLast'.notes) = 1
         /\ pLast'.notes[1].state = state
         /\ pLast'.notes[1].progress =
              [num |-> player'.currentStrokeIndex,
               den |-> Len(player'.currentSession.strokes)]
         /\ pLast'.notes[1].currentStroke = player'.currentStrokeIndex
         /\ pLast'.notes[1].totalStrokes = Len(player'.currentSession.strokes)
C30_OneNotificationPerTransition ==
    [][/\ (Play /\ ~NoSessionLoaded /\ ~Playing) => Emitted("playing")
       /\ (Resume /\ Paused) => Emitted("playing")
       /\ (Pause /\ Playing) => Emitted("paused")
       /\ (PlayerStop /\ ~Idle) => Emitted("stopped")
       /\ (Seek(Ratio(1, 2)) /\ ~NoSessionLoaded) => Emitted("seeked")
       /\ (pLast'.op = "tick" /\ Playing /\ ~player.loop /\ AtEnd) => Emitted("completed")
       /\ (pLast'.op = "tick" /\ ~AtEnd) => pLast'.notes = <<>>
       /\ pLast'.op \in {"loadSession", "setOnStateChange", "setOnComplete"} =>
            pLast'.notes = <<>>
       /\ \A j \in 1..Len(pLast'.notified) :
            pLast'.notified[j] = player.onStateChangeCallback]_vars

C30_Witness ==
    /\ pLast.op = "stop"
    /\ pLast.notified = <<"logs">>
    /\ pLast.notes = <<Note("stopped", Ratio(0, MaxStrokes), 0, MaxStrokes)>>
    /\ surface = EmptySurface
    /\ Idle


(***************************************************************************)
(* Properties of the IO module.                                            *)
(***************************************************************************)
\* C31 (checked under SpecIO): the session importRecording reads from the
\* file exportRecording wrote for a session has the strokes of that session:
\* as many, in the same order, each with the same properties and values.
C31_ImportOfExportHasTheStrokes ==
    io.stage = "imported" =>
        /\ io.imported.settled = "resolved"
        /\ io.imported.strokes = StrokeObjects(io.session.strokes)


(***************************************************************************)
(* Properties of the userscript (checked under SpecApp).                   *)
(***************************************************************************)
\* C32: in the album phase, after a game phase that ended with a session of
\* at least one stroke, a middle click on a result image loads that session
\* into the Player and starts playback.
C32_MiddleClickPlaysTheLastSession ==
    [][(/\ ImageMMB
        /\ app.currentPhase = "album"
        /\ Len(app.session.strokes) >= 1)
       => /\ player'.currentSession = app.session
          /\ player'.isPlaying
          /\ ~player'.isPaused]_vars

\* C35: when main() has registered the Painter and the Timelapse module and
\* initAll() has returned, init() of both has been called: each module
\* reports isEnabled true and the Recorder's interception of send is in
\* place.
C35_InitAllEnablesEveryModule ==
    app.last = "main" =>
        /\ \A i \in 1..Len(ModuleNames) : IsEnabled(app, ModuleNames[i])
        /\ wsSend = "intercepted"

\* C40: once destroy() of the Timelapse module has returned, and until the
\* module is initialised again, no listener of the module is registered.
C40_NoListenerAfterDestroy ==
    (app.destroyed /\ ~app.isEnabled) => app.eventListeners = 0


(***************************************************************************)
(* Properties of findComponent (checked under SpecFiber).                  *)
(***************************************************************************)
\* C36: on every finite fiber tree findComponent returns: a fiber of which
\* the predicate is true when the tree has one, and null when it has none.
C36_FindComponentReturns ==
    fib.stage = "done" =>
        /\ fib.result # RangeError
        /\ IF fib.matching = {} THEN fib.result = 0 ELSE fib.result \in fib.matching


(***************************************************************************)
(* Properties of two Recorders sharing send (checked under SpecPair).      *)
(***************************************************************************)
\* C37: when both Recorders have been initialised and both have been
\* destroyed since, in whatever order, WebSocket.prototype.send is the
\* native send again and a frame sent reaches it exactly once.
C37_BothDestroyedRestoresSend ==
    (pair.everInit = Recorders /\ pair.live = {}) =>
        /\ pair.send = "native"
        /\ pair.last = "send" => (pair.reached = 1 /\ ~pair.threw)


(***************************************************************************)
(* Properties of the Protocol parser (checked under SpecParse).            *)
(***************************************************************************)
\* C38: every frame that parse decodes to a DrawingEvent satisfies
\* isMessage, so that a caller who parses only the frames isMessage accepts
\* loses no drawing event.
C38_IsMessageAcceptsEveryDrawingFrame ==
    (pOut.stage = "parsed" /\ pOut.event.kind = "event") => isMessage(FrameOf(pIn))


IsMarker(point) == point.action # JUndef
StrokeDrawn(d, i) ==
    \E session \in SessionInputs : session.id = d.session /\ IsMarker(session.strokes[i])
C33_MarkersAreNotGeometry ==
    \A k \in 1..Len(pLast.drawn) :
        pLast.drawn[k].kind \in {"dot", "segment"} =>
            /\ ~StrokeDrawn(pLast.drawn[k], pLast.drawn[k].i)
            /\ pLast.drawn[k].prev # 0 => ~StrokeDrawn(pLast.drawn[k], pLast.drawn[k].prev)


(***************************************************************************)
(* Properties of one playback (checked under SpecPlayback).                *)
(***************************************************************************)
\* C34: without looping, a playback started at the first stroke and left to
\* the browser's frames ends, whatever the speed in 1..200 and whatever the
\* deltaTime of each frame, 0 included: while the Player is playing a frame
\* is requested; a tick that finds strokes left draws the strokes from the
\* cursor on, each once and in order, and at least one of them; and a tick
\* that finds none left puts the Player in Idle with the cursor at the end
\* and notifies 'completed'.  So the playback has drawn every stroke once
\* and has completed after at most one tick more than there are strokes.
PlaybackCompleted ==
    /\ Idle
    /\ pending = {}
    /\ Cursor = Len(player.currentSession.strokes)
    /\ pLast.op = "tick"
    /\ NotedStates(pLast) = IF player.onStateChangeCallback = "none" THEN <<>>
                            ELSE <<"completed">>
C34_PlaybackCompletes ==
    /\ [](Playing => pending # {})
    /\ [][(pLast'.op = "tick" /\ Playing /\ ~AtEnd) =>
            /\ Cursor' > Cursor
            /\ StrokesOf(pLast'.drawn) = Range(Cursor + 1, Cursor')
            /\ Playing']_vars
    /\ [][(pLast'.op = "tick" /\ Playing /\ AtEnd) => PlaybackCompleted']_vars
\* the slowest playback of the longest session, with frames of deltaTime 0
\* among them, has completed
C34_Witness ==
    /\ PlaybackCompleted
    /\ player.onStateChangeCallback # "none"
    /\ player.speed = 1
    /\ Len(player.currentSession.strokes) = MaxStrokes

====
